---- MODULE Spec2Model ----
(***************************************************************************)
(* A model of gusmmm/genai-to-obsidian: the PubMed toolkit                 *)
(* (src/lab/pubmed_lab/pubmed.py: request layer with cache and rate limit, *)
(* the three registered operations, the query builder, the XML record      *)
(* parser) and the credential loaders (src/utils/key_manager.py,           *)
(* src/utils/api.py).                                                      *)
(*                                                                         *)
(* Time is counted in clock ticks of 0.17 s, so that the 0.34 s of the     *)
(* rate limiter is MinInterval = 2 ticks.  Python's None is written        *)
(* PyNone where a value can be None or a string.  Texts that the code      *)
(* splits or strips are sequences of one-character strings; Str flattens   *)
(* them to the string the code builds.                                     *)
(***************************************************************************)
EXTENDS Integers, Sequences, FiniteSets, TLC

VARIABLES
    now,                \* time.time(), in ticks
    email,              \* self.email
    api_key,            \* self.api_key ("" models None: both are falsy)
    max_results,        \* self.max_results (NoInt: None)
    results_expanded,   \* self.results_expanded
    cache_duration,     \* self.cache_duration, in ticks
    last_request_time,  \* self.last_request_time
    cache,              \* self.cache: cache key -> [time, response]
    pc,                 \* position of the running operation, "idle" between calls
    frame,              \* locals of the running operation that a later step reads
    requests,           \* outbound HTTP requests of the current operation, in order
    limited_sent_at,    \* history: send time of the latest request of _make_api_request
    api_call,           \* history: the _make_api_request call of the latest step, if any
    op_args,            \* history: the arguments of the latest operation started
    result,             \* what the latest finished operation gave its caller
    calls,              \* number of operations started
    xml_root,           \* the PubmedArticle elements given to parse_details
    records,            \* the records parse_details returned for xml_root
    environ,            \* os.environ: name -> value, Unset or ""
    dotenv,             \* the .env file: name -> value or Unset
    manager,            \* the latest ApiKeyManager(required_keys), if any
    client,             \* the latest initialize_client(), if any
    name,               \* the text given to sanitize_filename
    filename,           \* what sanitize_filename returned last
    passes              \* how many times sanitize_filename has been applied

toolkitVars == <<now, email, api_key, max_results, results_expanded, cache_duration,
                 last_request_time, cache, pc, frame, requests, limited_sent_at,
                 api_call, op_args, result, calls>>
parserVars == <<xml_root, records>>
keyVars == <<environ, dotenv, manager, client>>
fileVars == <<name, filename, passes>>

vars == <<toolkitVars, parserVars, keyVars, fileVars>>

----------------------------------------------------------------------------
(* Bounds of the model *)

MaxTime == 4        \* operations start while now <= MaxTime
MaxLatency == 1     \* a request takes 0..MaxLatency ticks
MaxCalls == 1       \* operations started in one behaviour of Spec
MaxRequests == 3    \* _make_api_request calls in one behaviour of SpecRequests
MaxDuration == 2    \* the largest cache_duration tried

(* Program constants *)

MinInterval == 2    \* 0.34 s between requests, in ticks of 0.17 s
DefaultMaxResults == 10

PyNone == "<None>"
\* None where the other values are integers
NoInt == -1
Unset == "<unset>"
KeyNames == {"GEMINI_API_KEY", "NCBI_API_KEY"}
NoManager ==
    [called |-> FALSE, required_keys |-> <<>>, keys |-> <<>>, raised |-> FALSE,
     message |-> ""]
NoClient == [called |-> FALSE, created |-> FALSE, raised |-> FALSE, message |-> ""]
NoTime == -1

ESEARCH == "https://eutils.ncbi.nlm.nih.gov/entrez/eutils/esearch.fcgi"
EFETCH == "https://eutils.ncbi.nlm.nih.gov/entrez/eutils/efetch.fcgi"
ELINK == "https://eutils.ncbi.nlm.nih.gov/entrez/eutils/elink.fcgi"

----------------------------------------------------------------------------
(* Sequence helpers *)

Range(s) == {s[i] : i \in 1..Len(s)}

RECURSIVE Str(_)
Str(cs) == IF cs = <<>> THEN "" ELSE Head(cs) \o Str(Tail(cs))

RECURSIVE JoinStr(_, _)
JoinStr(sep, ss) ==
    IF ss = <<>> THEN ""
    ELSE IF Len(ss) = 1 THEN ss[1]
    ELSE ss[1] \o sep \o JoinStr(sep, Tail(ss))

Take(s, n) == SubSeq(s, 1, IF n < Len(s) THEN n ELSE Len(s))

----------------------------------------------------------------------------
(* Request parameters: a Python dict, kept as the sequence of its           *)
(* <<key, value>> items in insertion order.  Every value is a string        *)
(* (retmax is written in decimal).                                          *)

HasParam(params, k) == \E i \in 1..Len(params) : params[i][1] = k

ParamValue(params, k) ==
    LET i == CHOOSE j \in 1..Len(params) : params[j][1] = k IN params[i][2]

\* params[k] = v
SetParam(params, k, v) ==
    IF HasParam(params, k)
    THEN [i \in 1..Len(params) |-> IF params[i][1] = k THEN <<k, v>> ELSE params[i]]
    ELSE Append(params, <<k, v>>)

\* the parameter names the toolkit uses, in the order sort_keys=True gives them
ParamOrder ==
    <<"api_key", "db", "dbfrom", "email", "id", "linkname", "retmax",
      "retmode", "sort", "term", "tool", "usehistory">>

\* (the items in the order the dict has them)
KeysAsGiven(params) == params

\* json.dumps(params, sort_keys=True): the items ordered by key
SortKeys(params) ==
    LET ks == SelectSeq(ParamOrder, LAMBDA k : HasParam(params, k))
    IN  [i \in 1..Len(ks) |-> <<ks[i], ParamValue(params, ks[i])>>]

\* cache_key = f"{url}:{json.dumps(params, sort_keys=True)}"
CacheKey(url, params) == <<url, SortKeys(params)>>

----------------------------------------------------------------------------
(* HTTP: what httpx.get can do.  An outcome is an exception or a response  *)
(* with a status code and a body.  A body is well-formed XML or not; the   *)
(* model keeps of a well-formed body the texts of its .//Id elements       *)
(* (cited: those under LinkSet/LinkSetDb/Link) and its PubmedArticle       *)
(* elements.                                                               *)

Body(ok, ids, arts) == [wellformed |-> ok, ids |-> ids, articles |-> arts]
Malformed == Body(FALSE, <<>>, <<>>)

Raised(msg) == [raised |-> TRUE, error |-> msg, status |-> 0, content |-> Malformed]
Response(status, content) ==
    [raised |-> FALSE, error |-> "", status |-> status, content |-> content]

\* One entry of `requests`: the request to url left at time t, through
\* _make_api_request ("limited") or through httpx.get alone ("direct"); gap is
\* the time since the operation's previous request left, since_limited the
\* time since the previous request of _make_api_request left (NoTime: none).
Sent(log, t, url, params, outcome, via, since) ==
    [url |-> url, params |-> params, outcome |-> outcome, via |-> via, t |-> t,
     gap |-> IF log = <<>> THEN NoTime ELSE t - log[Len(log)].t,
     since_limited |-> since]

\* the value of api_call: the url and the parameters of the call as it completed
\* them, when it looked the cache up, whether it sent a request, and what it
\* handed back
ApiCall(url, params, at, sent, outcome) ==
    [url |-> url, params |-> params, at |-> at, sent |-> sent, outcome |-> outcome]
NoCall == ApiCall("", <<>>, NoTime, FALSE, Raised(""))

----------------------------------------------------------------------------
(* _make_api_request *)

\* params["tool"], params["email"], params["api_key"] are set before the key is built
WithRequired(params) ==
    LET p1 == SetParam(params, "tool", "agno-ai-pubmed-tool")
        p2 == SetParam(p1, "email", email)
    IN  IF api_key # "" THEN SetParam(p2, "api_key", api_key) ELSE p2

RequestKey(url, params) == CacheKey(url, WithRequired(params))

\* (a lookup that never lets an entry expire)
CacheHitWithoutExpiry(url, params) == RequestKey(url, params) \in DOMAIN cache

\* the lookup: the key is in the cache and the entry is younger than cache_duration
CacheHit(url, params) ==
    /\ RequestKey(url, params) \in DOMAIN cache
    /\ now - cache[RequestKey(url, params)].time < cache_duration

\* time.sleep(0.34 - time_since_last) when time_since_last < 0.34
SleepTime ==
    IF now - last_request_time < MinInterval
    THEN MinInterval - (now - last_request_time)
    ELSE 0

\* (a store that drops the entries that have expired)
CacheStoreEvicting(url, sent_params, t, response) ==
    LET k == CacheKey(url, sent_params)
        kept == {x \in DOMAIN cache : t - cache[x].time < cache_duration}
    IN  [x \in kept \cup {k} |->
            IF x = k
            THEN [time |-> t, response |-> response,
                  request |-> [url |-> url, params |-> sent_params]]
            ELSE cache[x]]

\* self.cache[cache_key] = (time.time(), response); the response carries
\* the request that got it (response.request)
CacheStore(url, sent_params, t, response) ==
    LET k == CacheKey(url, sent_params)
    IN  [x \in DOMAIN cache \cup {k} |->
            IF x = k
            THEN [time |-> t, response |-> response,
                  request |-> [url |-> url, params |-> sent_params]]
            ELSE cache[x]]

\* (a test that lets every response into the cache)
CacheableAlways(response) == TRUE

\* if response.status_code == 200
Cacheable(response) == response.status = 200

\* what the call hands back: the cached response, or what httpx.get did
ApiOutcome(url, params, outcome) ==
    IF CacheHit(url, params)
    THEN cache[RequestKey(url, params)].response
    ELSE outcome

\* (a hit that stamps the entry it returns with the time of the lookup)
ServeFromCacheRefreshing(log, url, params, outcome) ==
    /\ requests' = log
    /\ api_call' = ApiCall(url, WithRequired(params), now, FALSE,
                         ApiOutcome(url, params, outcome))
    /\ cache' = [cache EXCEPT ![RequestKey(url, params)].time = now]
    /\ UNCHANGED <<now, last_request_time, limited_sent_at>>

\* return cached_response: nothing is sent and nothing is written
ServeFromCache(log, url, params, outcome) ==
    /\ requests' = log
    /\ api_call' = ApiCall(url, WithRequired(params), now, FALSE,
                         ApiOutcome(url, params, outcome))
    /\ UNCHANGED <<now, last_request_time, cache, limited_sent_at>>

\* (a request whose time is recorded whether it raised or not)
AfterGetAlwaysStamped(url, sent_params, outcome, t) ==
    /\ last_request_time' = t
    /\ cache' = IF ~outcome.raised /\ Cacheable(outcome)
                THEN CacheStore(url, sent_params, t, outcome)
                ELSE cache

\* the try block once httpx.get has ended at time t: an exception goes to
\* "except ...: raise" before anything is written; a response sets
\* last_request_time and is stored when it is cacheable
AfterGet(url, sent_params, outcome, t) ==
    IF outcome.raised
    THEN UNCHANGED <<last_request_time, cache>>
    ELSE /\ last_request_time' = t
         /\ cache' = IF Cacheable(outcome)
                     THEN CacheStore(url, sent_params, t, outcome)
                     ELSE cache

\* The state change of one call.  log is the operation's request log so far,
\* lat the ticks between sending the request and its reply or exception.
MakeApiRequest(log, url, params, outcome, lat) ==
    IF CacheHit(url, params)
    THEN ServeFromCache(log, url, params, outcome)
    ELSE LET sent == now + SleepTime
             since == IF limited_sent_at = NoTime THEN NoTime ELSE sent - limited_sent_at
         IN  /\ requests' = Append(log, Sent(log, sent, url, WithRequired(params),
                                                  outcome, "limited", since))
             /\ api_call' = ApiCall(url, WithRequired(params), now, TRUE, outcome)
             /\ limited_sent_at' = sent
             /\ now' = sent + lat
             /\ AfterGet(url, WithRequired(params), outcome, sent + lat)

\* httpx.get called directly (fetch_pubmed_ids, fetch_details): no cache, no sleep
HttpGet(log, url, params, outcome, lat) ==
    /\ requests' = Append(log, Sent(log, now, url, params, outcome, "direct", NoTime))
    /\ now' = now + lat
    /\ api_call' = NoCall
    /\ UNCHANGED <<last_request_time, cache, limited_sent_at>>

----------------------------------------------------------------------------
(* Texts as sequences of characters *)

Whitespace == {" ", "\n"}

\* str.strip()
RECURSIVE LStrip(_)
LStrip(cs) == IF cs # <<>> /\ Head(cs) \in Whitespace THEN LStrip(Tail(cs)) ELSE cs

RECURSIVE RStrip(_)
RStrip(cs) ==
    IF cs # <<>> /\ cs[Len(cs)] \in Whitespace
    THEN RStrip(SubSeq(cs, 1, Len(cs) - 1))
    ELSE cs

Strip(cs) == RStrip(LStrip(cs))

\* str.split(sep) for a one-character separator
RECURSIVE Split(_, _)
Split(cs, sep) ==
    IF \E i \in 1..Len(cs) : cs[i] = sep
    THEN LET i == CHOOSE j \in 1..Len(cs) :
                      cs[j] = sep /\ \A k \in 1..(j - 1) : cs[k] # sep
         IN  <<SubSeq(cs, 1, i - 1)>> \o Split(SubSeq(cs, i + 1, Len(cs)), sep)
    ELSE <<cs>>

----------------------------------------------------------------------------
(* parse_details.  A PubmedArticle element is the record of what the       *)
(* find/findall calls of parse_details see in it.  A single element is     *)
(* Absent, present without text (its .text is None: PyNone) or present     *)
(* with a non-empty text.  An AbstractText section has a Label ("" when    *)
(* the attribute is missing) and a text, both character sequences; the     *)
(* empty text stands for a section whose .text is None.                    *)

Absent == "<absent>"

\* f"{x}" of a text or None
Fmt(x) == IF x = PyNone THEN "None" ELSE x

NoneChars == <<"N", "o", "n", "e">>
NoAbstractChars ==
    <<"N", "o", " ", "a", "b", "s", "t", "r", "a", "c", "t", " ",
      "a", "v", "a", "i", "l", "a", "b", "l", "e">>

\* one pass of the loop over abstract_sections
SectionText(sec) ==
    LET text == IF sec.text = <<>> THEN NoneChars ELSE sec.text
    IN  IF sec.Label # <<>>
        THEN sec.Label \o <<":", " ">> \o text \o <<"\n", "\n">>
        ELSE text \o <<"\n", "\n">>

RECURSIVE ConcatSections(_)
ConcatSections(secs) ==
    IF secs = <<>> THEN <<>> ELSE SectionText(Head(secs)) \o ConcatSections(Tail(secs))

AbstractOf(article) ==
    IF article.AbstractText # <<>>
    THEN Strip(ConcatSections(article.AbstractText))
    ELSE NoAbstractChars

FirstAuthorOf(article) ==
    IF article.Author.present
    THEN IF article.Author.LastName # Absent /\ article.Author.ForeName # Absent
         THEN Fmt(article.Author.LastName) \o ", " \o Fmt(article.Author.ForeName)
         ELSE IF article.Author.LastName # Absent
              THEN article.Author.LastName
              ELSE "Unknown"
    ELSE "Unknown"

DoiOf(article) == IF article.doi # Absent THEN article.doi ELSE "No DOI available"

\* (a URL built from whatever find returned)
PubmedUrlUnchecked(article) ==
    "https://pubmed.ncbi.nlm.nih.gov/"
        \o (IF article.PMID # Absent THEN Fmt(article.PMID) ELSE "") \o "/"

PubmedUrlOf(article) ==
    LET pmid == IF article.PMID # Absent THEN article.PMID ELSE ""
    IN  IF pmid # "" /\ pmid # PyNone
        THEN "https://pubmed.ncbi.nlm.nih.gov/" \o pmid \o "/"
        ELSE "No URL available"

\* (the DOI link preferred to the PubMed Central one)
FullTextUrlDoiFirst(article) ==
    IF article.doi # Absent
    THEN "https://doi.org/" \o Fmt(DoiOf(article))
    ELSE IF article.pmc # Absent
         THEN "https://www.ncbi.nlm.nih.gov/pmc/articles/" \o Fmt(article.pmc) \o "/"
         ELSE "Not available"

FullTextUrlOf(article) ==
    IF article.pmc # Absent
    THEN "https://www.ncbi.nlm.nih.gov/pmc/articles/" \o Fmt(article.pmc) \o "/"
    ELSE IF article.doi # Absent
         THEN "https://doi.org/" \o Fmt(DoiOf(article))
         ELSE "Not available"

\* the texts of the elements that have one ("if keyword.text")
WithText(elems) == SelectSeq(elems, LAMBDA e : e # PyNone)

JoinedOr(elems, placeholder) ==
    IF WithText(elems) # <<>> THEN JoinStr(", ", WithText(elems)) ELSE placeholder

ParseArticle(article) ==
    [Published |-> IF article.PubDateYear # Absent
                   THEN article.PubDateYear ELSE "No date available",
     Title |-> IF article.ArticleTitle # Absent
               THEN article.ArticleTitle ELSE "No title available",
     Summary |-> AbstractOf(article),
     First_Author |-> FirstAuthorOf(article),
     DOI |-> DoiOf(article),
     PubMed_URL |-> PubmedUrlOf(article),
     Full_Text_URL |-> FullTextUrlOf(article),
     Keywords |-> JoinedOr(article.Keyword, "No keywords available"),
     MeSH_Terms |-> JoinedOr(article.DescriptorName, "No MeSH terms available"),
     Journal |-> IF article.JournalTitle # Absent
                 THEN article.JournalTitle ELSE "Unknown Journal",
     Publication_Type |-> JoinedOr(article.PublicationType, "Not specified")]

\* parse_details(xml_root): one record per PubmedArticle, in document order
ParseDetails(articles) == [i \in 1..Len(articles) |-> ParseArticle(articles[i])]

----------------------------------------------------------------------------
(* The query builder of search_pubmed_advanced.  The arguments are a       *)
(* record; a string argument that is None is "" (the code tests only its   *)
(* truth), mesh_terms is a character sequence, max_results None is NoInt.  *)

\* query_terms.append(...) for the main query
\* (field_restriction before the two flags)
MainClauseFieldFirst(a) ==
    IF a.field_restriction # ""
    THEN "(" \o a.query \o ")[" \o a.field_restriction \o "]"
    ELSE IF a.title_only THEN "(" \o a.query \o ")[Title]"
    ELSE IF a.abstract_only THEN "(" \o a.query \o ")[Abstract]"
    ELSE "(" \o a.query \o ")"

MainClause(a) ==
    IF a.title_only THEN "(" \o a.query \o ")[Title]"
    ELSE IF a.abstract_only THEN "(" \o a.query \o ")[Abstract]"
    ELSE IF a.field_restriction # ""
         THEN "(" \o a.query \o ")[" \o a.field_restriction \o "]"
         ELSE "(" \o a.query \o ")"

\* (the separator the docstring names)
MeshTermListCommas(mesh_terms) ==
    LET parts == Split(mesh_terms, ",")
    IN  [i \in 1..Len(parts) |-> Strip(parts[i])]

\* mesh_term_list = [term.strip() for term in mesh_terms.split(';')]
MeshTermList(mesh_terms) ==
    LET parts == Split(mesh_terms, ";")
    IN  [i \in 1..Len(parts) |-> Strip(parts[i])]

MeshClauses(a) ==
    IF a.mesh_terms # <<>>
    THEN LET terms == MeshTermList(a.mesh_terms)
         IN  [i \in 1..Len(terms) |-> "\"" \o Str(terms[i]) \o "\"[MeSH Terms]"]
    ELSE <<>>

QueryTerms(a) ==
    (IF a.query # "" THEN <<MainClause(a)>> ELSE <<>>) \o MeshClauses(a)

Filters(a) ==
       (IF a.author # "" THEN <<a.author \o "[Author]">> ELSE <<>>)
    \o (IF a.journal # "" THEN <<"\"" \o a.journal \o "\"[Journal]">> ELSE <<>>)
    \o (IF a.publication_date # ""
        THEN <<a.publication_date \o "[Date - Publication]">> ELSE <<>>)
    \o (IF a.publication_type # ""
        THEN <<"\"" \o a.publication_type \o "\"[Publication Type]">> ELSE <<>>)
    \o (IF a.filter_free_full_text THEN <<"free full text[Filter]">> ELSE <<>>)
    \o (IF a.affiliation # ""
        THEN <<"\"" \o a.affiliation \o "\"[Affiliation]">> ELSE <<>>)

\* (the filters joined like the query terms)
FilterQueryWithOperator(a) == JoinStr(" " \o a.boolean_operator \o " ", Filters(a))

\* filter_query = " AND ".join(filters)
FilterQuery(a) == JoinStr(" AND ", Filters(a))

\* (the query terms joined, whether or not there are any)
MainQueryJoined(a) == JoinStr(" " \o a.boolean_operator \o " ", QueryTerms(a))

MainQuery(a) ==
    IF QueryTerms(a) # <<>>
    THEN JoinStr(" " \o a.boolean_operator \o " ", QueryTerms(a))
    ELSE "all[sb]"

\* (the two parts joined without their parentheses)
FinalQueryUnwrapped(a) ==
    IF Filters(a) # <<>>
    THEN MainQuery(a) \o " AND " \o FilterQuery(a)
    ELSE MainQuery(a)

FinalQuery(a) ==
    IF Filters(a) # <<>>
    THEN "(" \o MainQuery(a) \o ") AND (" \o FilterQuery(a) \o ")"
    ELSE MainQuery(a)

\* (the value of sort_by handed on as it is)
SortParamAsGiven(sort_by) == sort_by

SortParam(sort_by) ==
    IF sort_by = "pub_date" THEN "date"
    ELSE IF sort_by = "first_author" THEN "first_author"
    ELSE "relevance"

\* (the argument whenever it is not None)
FalsyOnlyNone(n) == n = NoInt

\* an Optional[int] that `or` passes over: None or 0
Falsy(n) == n = NoInt \/ n = 0

\* max_results or self.max_results or 10
ActualMaxResults(arg) ==
    IF ~Falsy(arg) THEN arg
    ELSE IF ~Falsy(max_results) THEN max_results ELSE DefaultMaxResults

\* the esearch parameters of search_pubmed_advanced
SearchParams(a) ==
    <<<<"db", "pubmed">>, <<"term", FinalQuery(a)>>,
      <<"retmax", ToString(ActualMaxResults(a.max_results))>>,
      <<"email", email>>, <<"usehistory", "y">>, <<"sort", SortParam(a.sort_by)>>>>

\* the esearch parameters of fetch_pubmed_ids(query, max_results, email)
FetchIdsParams(query, n, address) ==
    <<<<"db", "pubmed">>, <<"term", query>>, <<"retmax", ToString(n)>>,
      <<"email", address>>, <<"usehistory", "y">>>>

\* the efetch parameters of fetch_details(pubmed_ids)
FetchDetailsParams(pubmed_ids) ==
    <<<<"db", "pubmed">>, <<"id", JoinStr(",", pubmed_ids)>>, <<"retmode", "xml">>>>

\* the elink parameters of the citation search and of get_citation_metrics
LinkParams(pmid, linkname) ==
    <<<<"dbfrom", "pubmed">>, <<"db", "pubmed">>, <<"id", pmid>>,
      <<"linkname", linkname>>, <<"retmode", "xml">>>>

----------------------------------------------------------------------------
(* Formatting and the returned strings.  A returned string is kept as the  *)
(* sequence of its pieces; the Python string is their concatenation.       *)

SummaryCut == 200

FullText(article, cites) ==
    "Published: " \o Fmt(article.Published) \o "\n"
    \o "Title: " \o Fmt(article.Title) \o "\n"
    \o "First Author: " \o Fmt(article.First_Author) \o "\n"
    \o "Journal: " \o Fmt(article.Journal) \o "\n"
    \o "Publication Type: " \o article.Publication_Type \o "\n"
    \o "DOI: " \o Fmt(article.DOI) \o "\n"
    \o "PubMed URL: " \o article.PubMed_URL \o "\n"
    \o "Full Text URL: " \o article.Full_Text_URL \o "\n"
    \o "Keywords: " \o article.Keywords \o "\n"
    \o "MeSH Terms: " \o article.MeSH_Terms \o "\n"
    \o (IF cites # "" THEN "Cites: PMID " \o cites \o "\n" ELSE "")
    \o "Summary:\n" \o Str(article.Summary)

\* (f"Title ..." f"Published ..." f"Summary: {s[:200]}..." if len(s) > 200
\*  else f"Summary: {s}"): the conditional takes the whole concatenation
ConciseText(article, cites) ==
    IF Len(article.Summary) > SummaryCut
    THEN "Title: " \o Fmt(article.Title) \o "\n"
         \o "Published: " \o Fmt(article.Published) \o "\n"
         \o (IF cites # "" THEN "Cites: PMID " \o cites \o "\n" ELSE "")
         \o "Summary: " \o Str(Take(article.Summary, SummaryCut)) \o "..."
    ELSE "Summary: " \o Str(article.Summary)

\* the article text of the three formatting loops; cites is "" outside the
\* citation search
ArticleText(article, cites) ==
    IF results_expanded THEN FullText(article, cites) ELSE ConciseText(article, cites)

ArticleTexts(articles, cites) ==
    [i \in 1..Len(articles) |-> ArticleText(articles[i], cites)]

\* json.dumps of a list of strings (the escapes inside a string are not modelled)
RECURSIVE JsonItems(_)
JsonItems(texts) ==
    IF texts = <<>> THEN <<>>
    ELSE IF Len(texts) = 1 THEN <<"\"" \o texts[1] \o "\"">>
    ELSE <<"\"" \o texts[1] \o "\"", ", ">> \o JsonItems(Tail(texts))

JsonDumpsList(texts) == <<"[">> \o JsonItems(texts) \o <<"]">>

\* json.dumps of a dict whose items are given as <<key, rendered value>>
RECURSIVE JsonMembers(_)
JsonMembers(items) ==
    IF items = <<>> THEN <<>>
    ELSE LET member == <<"\"" \o items[1][1] \o "\"", ": ", items[1][2]>>
         IN  IF Len(items) = 1 THEN member
             ELSE member \o <<", ">> \o JsonMembers(Tail(items))

JsonDumpsObject(items) == <<"{">> \o JsonMembers(items) \o <<"}">>

\* f"{prefix} Error: {e}"
ErrorText(prefix, e) == <<prefix, " Error: ", e>>

\* json.loads accepts the string: it is an array or an object
JsonLoads(value) ==
    /\ Len(value) >= 2
    /\ \/ value[1] = "[" /\ value[Len(value)] = "]"
       \/ value[1] = "{" /\ value[Len(value)] = "}"

----------------------------------------------------------------------------
(* The inputs tried: what callers pass and what the Entrez server answers *)

Latencies == 0..MaxLatency

Pmids == {"101"}
Terms == {"test0", "test1"}

ArticleFull ==
    [PubDateYear |-> "2021", ArticleTitle |-> "T", JournalTitle |-> "J",
     doi |-> "10.1/x", PMID |-> "201", pmc |-> "PMC7",
     Author |-> [present |-> TRUE, LastName |-> "Roe", ForeName |-> "Ann"],
     AbstractText |-> <<[Label |-> <<"A">>, text |-> <<"b", " ", "c">>]>>,
     Keyword |-> <<"k1", "k2">>, DescriptorName |-> <<"m1">>,
     PublicationType |-> <<"Review">>]

ArticleBare ==
    [PubDateYear |-> Absent, ArticleTitle |-> Absent, JournalTitle |-> Absent,
     doi |-> Absent, PMID |-> Absent, pmc |-> Absent,
     Author |-> [present |-> FALSE, LastName |-> Absent, ForeName |-> Absent],
     AbstractText |-> <<>>, Keyword |-> <<>>, DescriptorName |-> <<>>,
     PublicationType |-> <<>>]

IdBodies ==
    {Body(TRUE, ids, <<>>) : ids \in {<<>>, <<"101", "102">>}}
        \cup {Malformed}

ArticleBodies ==
    {Body(TRUE, <<>>, arts) : arts \in {<<>>, <<ArticleBare, ArticleFull>>}}
        \cup {Malformed}

\* what a request to esearch or elink can do
IdOutcomes ==
    {Raised("timed out")} \cup {Response(200, b) : b \in IdBodies}
        \cup {Response(500, Malformed)}

\* what a request to efetch can do
DetailOutcomes ==
    {Raised("timed out")} \cup {Response(200, b) : b \in ArticleBodies}

NoArgs ==
    [query |-> "", author |-> "", journal |-> "", publication_date |-> "",
     publication_type |-> "", sort_by |-> "relevance",
     filter_free_full_text |-> FALSE, mesh_terms |-> <<>>,
     field_restriction |-> "", title_only |-> FALSE, abstract_only |-> FALSE,
     boolean_operator |-> "AND", affiliation |-> "", cited_by_pmid |-> "",
     max_results |-> NoInt]

\* the searches the state machine makes
SearchArgs ==
    {[NoArgs EXCEPT !.query = "diabetes", !.max_results = m] : m \in {NoInt, 2}}

----------------------------------------------------------------------------
(* The operations.  An operation runs in steps, one per HTTP request; a    *)
(* step is the code from the end of the previous request to the end of     *)
(* this one, and the last step returns.                                    *)

NoFrame == [pmid |-> "", ids |-> <<>>, articles |-> <<>>, citing |-> <<>>]
\* result: the operation, whether it returned (or let an exception out), the
\* returned string, and the text of the exception raised inside it ("": none)
Result(op, returned, value, error) ==
    [op |-> op, returned |-> returned, value |-> value, error |-> error]
NoResult == Result("", FALSE, <<>>, "")

Config == <<email, api_key, max_results, results_expanded, cache_duration>>

Finish(res) ==
    /\ result' = res
    /\ pc' = "idle"
    /\ frame' = NoFrame

\* return value
Return(op, value) == Finish(Result(op, TRUE, value, ""))

\* the exception e leaves the operation
Propagate(op, prefix, e) == Finish(Result(op, FALSE, <<>>, e))

\* (a handler that lets the exception out)
ExceptReraises(op, prefix, e) == Propagate(op, prefix, e)

\* except Exception as e: return f"{prefix} Error: {e}"
Except(op, prefix, e) == Finish(Result(op, TRUE, ErrorText(prefix, e), e))

\* on to the next step of the operation: nothing is returned yet
Goto(label, fr) ==
    /\ pc' = label
    /\ frame' = fr
    /\ result' = NoResult

\* ElementTree.fromstring(response.content) raises on a malformed body
ParseError == "syntax error: line 1, column 0"
Failure(o) == IF o.raised THEN o.error ELSE ParseError
Failed(o) == o.raised \/ ~o.content.wellformed

\* [id_elem.text for id_elem in ... if id_elem.text is not None]
IdsOf(o) == WithText(o.content.ids)

\* (a test that never finds the list empty)
NotAnyNever(ids) == FALSE

\* "if not ids:", "if not citing_ids:"
NotAny(ids) == ids = <<>>

StartWithin(bound) ==
    /\ pc = "idle"
    /\ calls < bound
    /\ now <= MaxTime
    /\ calls' = calls + 1
    /\ UNCHANGED <<Config, parserVars, fileVars, keyVars>>

Start == StartWithin(MaxCalls)

Continue(label) ==
    /\ pc = label
    /\ UNCHANGED <<calls, op_args, Config, parserVars, fileVars, keyVars>>

\* time passes between two operations
Tick ==
    /\ pc = "idle"
    /\ now < MaxTime
    /\ now' = now + 1
    /\ api_call' = NoCall
    /\ UNCHANGED <<Config, last_request_time, cache, pc, frame, requests,
                   limited_sent_at, op_args, result, calls, parserVars, fileVars, keyVars>>

\* _make_api_request called from outside, as test_api_rate_limiting does
ApiRequestWith(bound, url, params, outcome, lat) ==
        LET o == ApiOutcome(url, params, outcome)
        IN  /\ StartWithin(bound)
            /\ op_args' = [NoArgs EXCEPT !.query = ParamValue(params, "term")]
            /\ MakeApiRequest(<<>>, url, params, outcome, lat)
            /\ IF o.raised
               THEN Propagate("_make_api_request", "", o.error)
               ELSE Return("_make_api_request", <<>>)

\* {"db": "pubmed", "term": f"test{i}", "retmax": 1}
ApiRequestCall(bound) ==
    \E term \in Terms, outcome \in IdOutcomes, lat \in Latencies :
        ApiRequestWith(bound, ESEARCH,
                       <<<<"db", "pubmed">>, <<"term", term>>, <<"retmax", "1">>>>,
                       outcome, lat)

CallMakeApiRequest == ApiRequestCall(MaxCalls)

\* the same call in a run of such calls alone
RepeatedApiRequest == ApiRequestCall(MaxRequests)

\* search_pubmed up to the end of fetch_pubmed_ids
SearchPubmed ==
    \E query \in Terms, o \in IdOutcomes, lat \in Latencies :
        /\ Start
        /\ op_args' = [NoArgs EXCEPT !.query = query]
        /\ HttpGet(<<>>, ESEARCH,
                   FetchIdsParams(query, IF ~Falsy(max_results) THEN max_results
                                         ELSE DefaultMaxResults, email),
                   o, lat)
        /\ IF Failed(o)
           THEN Except("search_pubmed", "Could not fetch articles.", Failure(o))
           ELSE Goto("search_pubmed:details", [NoFrame EXCEPT !.ids = IdsOf(o)])

\* fetch_details, parse_details, the formatting loop and the return
DetailsStep(op, prefix, o, lat) ==
    /\ HttpGet(requests, EFETCH, FetchDetailsParams(frame.ids), o, lat)
    /\ IF Failed(o)
       THEN Except(op, prefix, Failure(o))
       ELSE Return(op, JsonDumpsList(
                ArticleTexts(ParseDetails(o.content.articles), frame.pmid)))

SearchPubmedDetails ==
    \E o \in DetailOutcomes, lat \in Latencies :
        /\ Continue("search_pubmed:details")
        /\ DetailsStep("search_pubmed", "Could not fetch articles.", o, lat)

\* search_pubmed_advanced without cited_by_pmid, up to the test of ids
AdvancedSearchStep(a, outcome, lat) ==
        LET o == ApiOutcome(ESEARCH, SearchParams(a), outcome)
            op == "search_pubmed_advanced"
        IN  /\ Start
            /\ op_args' = a
            /\ MakeApiRequest(<<>>, ESEARCH, SearchParams(a), outcome, lat)
            /\ IF Failed(o)
               THEN Except(op, "Could not fetch articles with advanced search.",
                           Failure(o))
               ELSE IF NotAny(IdsOf(o))
               THEN Return(op, JsonDumpsList(
                        <<"No articles found matching your criteria.">>))
               ELSE Goto("advanced:details", [NoFrame EXCEPT !.ids = IdsOf(o)])

AdvancedDetails ==
    \E o \in DetailOutcomes, lat \in Latencies :
        /\ Continue("advanced:details")
        /\ DetailsStep("search_pubmed_advanced",
                       "Could not fetch articles with advanced search.", o, lat)

\* search_pubmed_advanced with cited_by_pmid: _process_citation_search up to
\* the test of citing_ids
CitationSearchStep(a, outcome, lat) ==
        LET pmid == a.cited_by_pmid
            params == LinkParams(pmid, "pubmed_pubmed_citedin")
            o == ApiOutcome(ELINK, params, outcome)
            op == "search_pubmed_advanced"
            citing_ids == Take(IdsOf(o), ActualMaxResults(a.max_results))
        IN  /\ Start
            /\ op_args' = a
            /\ MakeApiRequest(<<>>, ELINK, params, outcome, lat)
            /\ IF Failed(o)
               THEN Except(op, "Could not fetch citing articles.", Failure(o))
               ELSE IF NotAny(citing_ids)
               THEN Return(op, JsonDumpsList(
                        <<"No articles found citing PMID: " \o pmid>>))
               ELSE Goto("citation:details",
                         [NoFrame EXCEPT !.pmid = pmid, !.ids = citing_ids])

\* (a call that searches with its query whenever it has one)
AdvancedQueryFirst(a, outcome, lat) ==
    IF a.cited_by_pmid # "" /\ a.query = ""
    THEN CitationSearchStep(a, outcome, lat)
    ELSE AdvancedSearchStep(a, outcome, lat)

\* search_pubmed_advanced up to the end of its first request:
\* "if cited_by_pmid: return self._process_citation_search(...)"
SearchPubmedAdvanced(a, outcome, lat) ==
    IF a.cited_by_pmid # ""
    THEN CitationSearchStep(a, outcome, lat)
    ELSE AdvancedSearchStep(a, outcome, lat)

AdvancedSearch ==
    \E a \in SearchArgs, outcome \in IdOutcomes, lat \in Latencies :
        SearchPubmedAdvanced(a, outcome, lat)

CitationSearch ==
    \E pmid \in Pmids, mr \in {NoInt, 1}, outcome \in IdOutcomes, lat \in Latencies :
        SearchPubmedAdvanced(
            [NoArgs EXCEPT !.query = "diabetes", !.cited_by_pmid = pmid,
                           !.max_results = mr],
            outcome, lat)

CitationDetails ==
    \E o \in DetailOutcomes, lat \in Latencies :
        /\ Continue("citation:details")
        /\ DetailsStep("search_pubmed_advanced",
                       "Could not fetch citing articles.", o, lat)


\* json.dumps of a string or None
JsonStr(x) == IF x = PyNone THEN "null" ELSE "\"" \o x \o "\""

RelatedLimit == 5

\* the entry of related_details for one related article
RelatedDetail(rel) ==
    "{\"Title\": " \o JsonStr(rel.Title)
    \o ", \"Authors\": " \o JsonStr(rel.First_Author)
    \o ", \"Journal\": " \o JsonStr(rel.Journal)
    \o ", \"Year\": " \o JsonStr(rel.Published)
    \o ", \"URL\": " \o JsonStr(rel.PubMed_URL) \o "}"

\* json.dumps(metrics)
MetricsJson(article, citing_ids, related_articles) ==
    JsonDumpsObject(
        <<<<"article",
            "{\"title\": " \o JsonStr(article.Title)
              \o ", \"authors\": " \o JsonStr(article.First_Author)
              \o ", \"journal\": " \o JsonStr(article.Journal)
              \o ", \"year\": " \o JsonStr(article.Published)
              \o ", \"doi\": " \o JsonStr(article.DOI)
              \o ", \"full_text_url\": " \o JsonStr(article.Full_Text_URL) \o "}">>,
          <<"citation_count", ToString(Len(citing_ids))>>,
          <<"mesh_terms", JsonStr(article.MeSH_Terms)>>,
          <<"publication_type", JsonStr(article.Publication_Type)>>,
          <<"related_articles",
            "[" \o JoinStr(", ", [i \in 1..Len(related_articles) |->
                                     RelatedDetail(related_articles[i])])
                \o "]">>>>)

\* (the message alone)
NoArticleMessage(pmid) == <<"No article found with PMID: " \o pmid>>

\* json.dumps({"error": f"No article found with PMID: {pmid}"})
NoArticleError(pmid) ==
    JsonDumpsObject(<<<<"error", "\"No article found with PMID: " \o pmid \o "\"">>>>)

MetricsError == "Could not fetch citation metrics."

\* get_citation_metrics up to the test of articles
CitationMetrics ==
    \E pmid \in Pmids, o \in DetailOutcomes, lat \in Latencies :
        LET op == "get_citation_metrics"
            articles == ParseDetails(o.content.articles)
        IN  /\ Start
            /\ op_args' = [NoArgs EXCEPT !.query = pmid]
            /\ HttpGet(<<>>, EFETCH, FetchDetailsParams(<<pmid>>), o, lat)
            /\ IF Failed(o)
               THEN Except(op, MetricsError, Failure(o))
               ELSE IF articles = <<>>
               THEN Return(op, NoArticleError(pmid))
               ELSE Goto("metrics:citedin",
                         [NoFrame EXCEPT !.pmid = pmid, !.articles = <<articles[1]>>])

\* the elink request for the citing articles
MetricsCitedInStep(outcome, lat) ==
        LET params == LinkParams(frame.pmid, "pubmed_pubmed_citedin")
            o == ApiOutcome(ELINK, params, outcome)
        IN  /\ Continue("metrics:citedin")
            /\ MakeApiRequest(requests, ELINK, params, outcome, lat)
            /\ IF Failed(o)
               THEN Except("get_citation_metrics", MetricsError, Failure(o))
               ELSE Goto("metrics:related", [frame EXCEPT !.citing = IdsOf(o)])

MetricsCitedIn ==
    \E outcome \in IdOutcomes, lat \in Latencies : MetricsCitedInStep(outcome, lat)

\* (the first five IDs, and then the queried PMID taken out of them)
RelatedIdsCutFirst(ids, pmid) ==
    SelectSeq(Take(ids, RelatedLimit), LAMBDA id : id # pmid)

\* related_ids: the IDs other than pmid ("Exclude self"), then [:5]
RelatedIds(ids, pmid) ==
    Take(SelectSeq(ids, LAMBDA id : id # pmid), RelatedLimit)

\* the elink request for the related articles, up to the test of related_ids
MetricsRelatedStep(outcome, lat) ==
        LET params == LinkParams(frame.pmid, "pubmed_pubmed")
            o == ApiOutcome(ELINK, params, outcome)
            related_ids == RelatedIds(IdsOf(o), frame.pmid)
        IN  /\ Continue("metrics:related")
            /\ MakeApiRequest(requests, ELINK, params, outcome, lat)
            /\ IF Failed(o)
               THEN Except("get_citation_metrics", MetricsError, Failure(o))
               ELSE IF related_ids = <<>>
               THEN Return("get_citation_metrics",
                           MetricsJson(frame.articles[1], frame.citing, <<>>))
               ELSE Goto("metrics:related_details", [frame EXCEPT !.ids = related_ids])

MetricsRelated ==
    \E outcome \in IdOutcomes, lat \in Latencies : MetricsRelatedStep(outcome, lat)

\* fetch_details(related_ids), parse_details and the return
MetricsRelatedDetailsStep(o, lat) ==
        /\ Continue("metrics:related_details")
        /\ HttpGet(requests, EFETCH, FetchDetailsParams(frame.ids), o, lat)
        /\ IF Failed(o)
           THEN Except("get_citation_metrics", MetricsError, Failure(o))
           ELSE Return("get_citation_metrics",
                       MetricsJson(frame.articles[1], frame.citing,
                                   ParseDetails(o.content.articles)))

MetricsRelatedDetails ==
    \E o \in DetailOutcomes, lat \in Latencies : MetricsRelatedDetailsStep(o, lat)

----------------------------------------------------------------------------
(* The toolkit as a state machine *)

\* the constructor arguments tried
Instances ==
    {[api_key |-> "", max_results |-> NoInt, results_expanded |-> TRUE,
      cache_duration |-> MaxDuration],
     [api_key |-> "key", max_results |-> 1, results_expanded |-> FALSE,
      cache_duration |-> MaxDuration],
     [api_key |-> "", max_results |-> 1, results_expanded |-> FALSE,
      cache_duration |-> 0]}

\* PubmedTools.__init__; the clock is past the first rate-limit window, as
\* time.time() is against last_request_time = 0
InitInstance(instances) ==
    /\ now = MinInterval
    /\ email = "your_email@example.com"
    /\ \E c \in instances :
           /\ api_key = c.api_key
           /\ max_results = c.max_results
           /\ results_expanded = c.results_expanded
           /\ cache_duration = c.cache_duration
    /\ last_request_time = 0
    /\ cache = <<>>
    /\ pc = "idle"
    /\ frame = NoFrame
    /\ requests = <<>>
    /\ limited_sent_at = NoTime
    /\ api_call = NoCall
    /\ op_args = NoArgs
    /\ result = NoResult
    /\ calls = 0

InitToolkit == InitInstance(Instances)

\* nothing parsed, no credentials loaded
InitParser == xml_root = <<>> /\ records = <<>>
\* sanitize_filename not called yet
InitFiles == name = <<>> /\ filename = <<>> /\ passes = 0
InitKeys ==
    /\ environ = [k \in KeyNames |-> Unset]
    /\ dotenv = [k \in KeyNames |-> Unset]
    /\ manager = NoManager
    /\ client = NoClient

Init == InitToolkit /\ InitParser /\ InitKeys /\ InitFiles

Next ==
    \/ Tick
    \/ CallMakeApiRequest
    \/ SearchPubmed
    \/ SearchPubmedDetails
    \/ AdvancedSearch
    \/ AdvancedDetails
    \/ CitationSearch
    \/ CitationDetails
    \/ CitationMetrics
    \/ MetricsCitedIn
    \/ MetricsRelated
    \/ MetricsRelatedDetails

Spec == Init /\ [][Next]_vars

\* one instance under calls of _make_api_request alone
NextRequests == Tick \/ RepeatedApiRequest

SpecRequests == Init /\ [][NextRequests]_vars

----------------------------------------------------------------------------
(* The cache under requests that differ in their URL, in one parameter or  *)
(* in the order of their parameters only                                   *)

MaxKeyed == 2       \* the calls of _make_api_request in such a run

KeyedParams ==
    {<<<<"db", "pubmed">>, <<"term", "test0">>, <<"retmax", "1">>>>,
     <<<<"retmax", "1">>, <<"term", "test0">>, <<"db", "pubmed">>>>,
     <<<<"db", "pubmed">>, <<"term", "test0">>, <<"retmax", "2">>>>,
     <<<<"db", "pubmed">>, <<"term", "test0">>, <<"retmax", "1">>, <<"sort", "date">>>>}

KeyedOutcomes ==
    {Response(200, Body(TRUE, ids, <<>>)) : ids \in {<<>>, <<"101">>, <<"102">>}}
        \cup {Response(500, Malformed)}

KeyedApiRequest ==
    \E url \in {ESEARCH, ELINK}, params \in KeyedParams, outcome \in KeyedOutcomes :
        ApiRequestWith(MaxKeyed, url, params, outcome, 0)

NextCache == Tick \/ KeyedApiRequest

SpecCache == Init /\ [][NextCache]_vars

----------------------------------------------------------------------------
(* The basic toolkit, src/lab/pubmed.py: a PubmedTools with email and      *)
(* max_results only, whose search_pubmed takes max_results (default 10)    *)
(* and always gives the comprehensive format.                              *)

BasicInstances ==
    {[api_key |-> "", max_results |-> mr, results_expanded |-> TRUE,
      cache_duration |-> MaxDuration] : mr \in {NoInt, 0, 3}}

\* self.max_results or max_results
BasicMaxResults(n) == IF ~Falsy(max_results) THEN max_results ELSE n

\* search_pubmed(query, max_results) up to the end of fetch_pubmed_ids
BasicSearchPubmed ==
    \E query \in Terms, n \in {DefaultMaxResults, 0, 2, 4}, o \in IdOutcomes :
        /\ Start
        /\ op_args' = [NoArgs EXCEPT !.query = query, !.max_results = n]
        /\ HttpGet(<<>>, ESEARCH, FetchIdsParams(query, BasicMaxResults(n), email), o, 0)
        /\ IF Failed(o)
           THEN Except("basic.search_pubmed", "Could not fetch articles.", Failure(o))
           ELSE Goto("basic:details", [NoFrame EXCEPT !.ids = IdsOf(o)])

BasicSearchDetails ==
    \E o \in DetailOutcomes :
        /\ Continue("basic:details")
        /\ DetailsStep("basic.search_pubmed", "Could not fetch articles.", o, 0)

InitBasic == InitInstance(BasicInstances) /\ InitParser /\ InitKeys /\ InitFiles

NextBasic == BasicSearchPubmed \/ BasicSearchDetails

SpecBasic == InitBasic /\ [][NextBasic]_vars

----------------------------------------------------------------------------
(* The query built by search_pubmed_advanced, over many arguments: the     *)
(* first call on a new instance, the esearch request failing or finding    *)
(* nothing.                                                                *)

MaxMeshLen == 3     \* the longest mesh_terms tried, in characters

MeshAlphabet == {"a", "b", ",", ";", " "}

RECURSIVE CharSeqs(_)
CharSeqs(n) ==
    IF n = 0 THEN {<<>>}
    ELSE LET shorter == CharSeqs(n - 1)
         IN  shorter \cup {Append(cs, c) : cs \in {x \in shorter : Len(x) = n - 1},
                                           c \in MeshAlphabet}

FilterArgs(a, author, journal, date, type, free, affiliation) ==
    [a EXCEPT !.author = author, !.journal = journal, !.publication_date = date,
              !.publication_type = type, !.filter_free_full_text = free,
              !.affiliation = affiliation]

\* mesh_terms of every shape, with few filters
MeshQueries ==
    {[NoArgs EXCEPT !.query = q, !.mesh_terms = m, !.boolean_operator = bo,
                    !.author = au] :
        q \in {"", "cancer"}, m \in CharSeqs(MaxMeshLen), bo \in {"AND", "OR"},
        au \in {"", "Smith JB"}}

\* every set of filters, with few mesh_terms
FilterQueries ==
    {FilterArgs([NoArgs EXCEPT !.query = q, !.mesh_terms = m, !.boolean_operator = bo],
                au, jo, da, ty, fr, af) :
        q \in {"", "cancer"}, m \in {<<>>, <<"a", ";", "b">>}, bo \in {"AND", "OR"},
        au \in {"", "Smith JB"}, jo \in {"", "Nature"}, da \in {"", "2020:2023"},
        ty \in {"", "Review"}, fr \in BOOLEAN, af \in {"", "MIT"}}

\* the field restrictions, the sort orders and max_results
RestrictedQueries ==
    {[NoArgs EXCEPT !.query = q, !.mesh_terms = m, !.author = au,
                    !.title_only = t, !.abstract_only = ab, !.field_restriction = f,
                    !.sort_by = so, !.max_results = mr] :
        q \in {"", "cancer"}, m \in {<<>>, <<"a">>}, au \in {"", "Smith JB"},
        t \in BOOLEAN, ab \in BOOLEAN, f \in {"", "Title/Abstract"},
        so \in {"relevance", "pub_date", "first_author", "newest"}, mr \in {NoInt, 2}}

\* the same searches with cited_by_pmid
CitationQueries ==
    {[a EXCEPT !.cited_by_pmid = pmid] :
        a \in FilterQueries \cup RestrictedQueries, pmid \in Pmids}

\* every max_results, on either path
LimitQueries ==
    {[NoArgs EXCEPT !.query = "cancer", !.cited_by_pmid = pmid, !.max_results = mr] :
        pmid \in {""} \cup Pmids, mr \in {NoInt, 0, 2, 4}}

QueryInputs ==
    MeshQueries \cup FilterQueries \cup RestrictedQueries \cup CitationQueries
        \cup LimitQueries

\* the instances of the query runs: self.max_results None, 0 and 3
QueryInstances ==
    {[api_key |-> "", max_results |-> mr, results_expanded |-> TRUE,
      cache_duration |-> MaxDuration] : mr \in {NoInt, 0, 3}}

\* what the esearch or elink request of a query run can do
QueryOutcomes ==
    {Raised("timed out"), Response(200, Body(TRUE, <<>>, <<>>)),
     Response(200, Body(TRUE, <<"101", PyNone, "102", "103", "104", "105">>, <<>>))}

\* the query does not read self.max_results: the instances that set it run
\* the searches that vary max_results
QuerySearch ==
    \E a \in QueryInputs, outcome \in QueryOutcomes :
        /\ calls = 0
        /\ max_results # NoInt => a \in LimitQueries
        /\ SearchPubmedAdvanced(a, outcome, 0)

InitQuery ==
    /\ InitInstance(QueryInstances)
    /\ InitParser
    /\ InitKeys
    /\ InitFiles

SpecQuery == InitQuery /\ [][QuerySearch]_vars

----------------------------------------------------------------------------
(* parse_details, over many PubmedArticle elements *)

Elem(text) == {Absent, PyNone, text}

Authors ==
    {ArticleBare.Author}
        \cup {[present |-> TRUE, LastName |-> l, ForeName |-> f] :
                 l \in Elem("Roe"), f \in Elem("Ann")}

Abstracts ==
    {<<>>,
     <<[Label |-> <<>>, text |-> <<"a", " ", "b">>]>>,
     <<[Label |-> <<"M">>, text |-> <<>>]>>,
     <<[Label |-> <<"M">>, text |-> <<"a">>], [Label |-> <<>>, text |-> <<"b", " ">>]>>}

\* the year, the title and the journal vary together, and so do the MeSH
\* headings and the publication types
ArticleInputs ==
    {[PubDateYear |-> IF s = "text" THEN "2021" ELSE s,
      ArticleTitle |-> IF s = "text" THEN "T" ELSE s,
      JournalTitle |-> IF s = "text" THEN "J" ELSE s,
      doi |-> doi, PMID |-> pmid, pmc |-> pmc, Author |-> au, AbstractText |-> ab,
      Keyword |-> kw,
      DescriptorName |-> IF ls = "text" THEN <<"m1", PyNone, "m2">>
                         ELSE IF ls = PyNone THEN <<PyNone>> ELSE <<>>,
      PublicationType |-> IF ls = "text" THEN <<"Review">>
                          ELSE IF ls = PyNone THEN <<PyNone>> ELSE <<>>] :
        s \in Elem("text"), doi \in Elem("10.1/x"), pmid \in Elem("201"),
        pmc \in Elem("PMC7"), au \in Authors, ab \in Abstracts,
        kw \in {<<>>, <<PyNone>>, <<"k1", "k2">>}, ls \in Elem("text")}

Documents ==
    {<<a>> : a \in ArticleInputs}
        \cup {<<ArticleBare, ArticleFull>>, <<ArticleFull, ArticleBare>>}

\* articles = self.parse_details(xml_root)
ParseDetailsCall ==
    /\ records = <<>>
    /\ records' = ParseDetails(xml_root)
    /\ UNCHANGED <<toolkitVars, xml_root, keyVars, fileVars>>

InitParse ==
    /\ InitInstance({CHOOSE c \in Instances : c.max_results = NoInt})
    /\ xml_root \in Documents
    /\ records = <<>>
    /\ InitKeys
    /\ InitFiles

SpecParse == InitParse /\ [][ParseDetailsCall]_vars

----------------------------------------------------------------------------
(* The credential loaders: ApiKeyManager and initialize_client *)

MaxRequired == 2    \* the longest required_keys tried

\* (a test that takes an empty value for a key that is set)
MissingOnlyUnset(value) == value = Unset

\* `not value` of os.getenv's result: None or ""
Missing(value) == value = Unset \/ value = ""

\* load_dotenv(): a variable of the .env file is set unless os.environ has it
LoadDotenv(env, file) ==
    [k \in KeyNames |-> IF env[k] = Unset /\ file[k] # Unset THEN file[k] ELSE env[k]]

\* the loop of _load_env_vars: the keys loaded and the keys missing
RECURSIVE LoadKeys(_, _, _, _)
LoadKeys(required_keys, env, keys, missing_keys) ==
    IF required_keys = <<>>
    THEN [keys |-> keys, missing_keys |-> missing_keys]
    ELSE LET key_name == Head(required_keys)
             value == env[key_name]
         IN  IF Missing(value)
             THEN LoadKeys(Tail(required_keys), env, keys, Append(missing_keys, key_name))
             ELSE LoadKeys(Tail(required_keys), env,
                           [k \in DOMAIN keys \cup {key_name} |->
                               IF k = key_name THEN value ELSE keys[k]],
                           missing_keys)

RECURSIVE KeyLists(_)
KeyLists(n) ==
    IF n = 0 THEN {<<>>}
    ELSE LET shorter == KeyLists(n - 1)
         IN  shorter \cup {Append(ks, k) : ks \in {x \in shorter : Len(x) = n - 1},
                                           k \in KeyNames}

\* ApiKeyManager(required_keys)
NewApiKeyManager ==
    \E required_keys \in KeyLists(MaxRequired) :
        LET env == LoadDotenv(environ, dotenv)
            loaded == LoadKeys(required_keys, env, <<>>, <<>>)
        IN  /\ environ' = env
            /\ manager' =
                 [called |-> TRUE,
                  required_keys |-> required_keys,
                  keys |-> loaded.keys,
                  raised |-> loaded.missing_keys # <<>>,
                  message |->
                      IF loaded.missing_keys # <<>>
                      THEN "Required keys not found: "
                               \o JoinStr(", ", loaded.missing_keys)
                               \o ". Please check your .env file."
                      ELSE ""]
            /\ UNCHANGED <<toolkitVars, parserVars, fileVars, dotenv, client>>

\* initialize_client()
InitializeClient ==
    LET env == LoadDotenv(environ, dotenv)
    IN  /\ environ' = env
        /\ client' =
             IF Missing(env["GEMINI_API_KEY"])
             THEN [called |-> TRUE, created |-> FALSE, raised |-> TRUE,
                   message |-> "GEMINI_API_KEY not found. Please check your .env file."]
             ELSE [called |-> TRUE, created |-> TRUE, raised |-> FALSE, message |-> ""]
        /\ UNCHANGED <<toolkitVars, parserVars, fileVars, dotenv, manager>>

InitCredentials ==
    /\ InitInstance({CHOOSE c \in Instances : c.max_results = NoInt})
    /\ InitParser
    /\ environ \in [KeyNames -> {Unset, "", "secret"}]
    /\ dotenv \in [KeyNames -> {Unset, "", "from-file"}]
    /\ manager = NoManager
    /\ client = NoClient
    /\ InitFiles

NextCredentials == NewApiKeyManager \/ InitializeClient

SpecCredentials == InitCredentials /\ [][NextCredentials]_vars

----------------------------------------------------------------------------
(* ApiKeyManager.get on one manager, while the environment changes *)

\* (a lookup that asks the environment before the keys it holds)
LookupEnvironmentFirst(keys, env, key_name) ==
    IF ~Missing(env[key_name])
    THEN [value |-> env[key_name],
          keys |-> [k \in DOMAIN keys \cup {key_name} |->
                       IF k = key_name THEN env[key_name] ELSE keys[k]]]
    ELSE IF key_name \in DOMAIN keys
    THEN [value |-> keys[key_name], keys |-> keys]
    ELSE [value |-> PyNone, keys |-> keys]

\* get(key_name): the value returned and self.keys afterwards
Lookup(keys, env, key_name) ==
    IF key_name \in DOMAIN keys
    THEN [value |-> keys[key_name], keys |-> keys]
    ELSE IF ~Missing(env[key_name])
    THEN [value |-> env[key_name],
          keys |-> [k \in DOMAIN keys \cup {key_name} |->
                       IF k = key_name THEN env[key_name] ELSE keys[k]]]
    ELSE [value |-> PyNone, keys |-> keys]

\* the one manager of the run
ConstructManager == ~manager.called /\ NewApiKeyManager

\* manager.get(key_name), on a manager whose constructor did not raise; the
\* returned value is kept as the one piece of result.value
GetKey ==
    \E key_name \in KeyNames :
        LET got == Lookup(manager.keys, environ, key_name)
        IN  /\ manager.called
            /\ ~manager.raised
            /\ manager' = [manager EXCEPT !.keys = got.keys]
            /\ result' = Result("get", TRUE, <<got.value>>, "")
            /\ op_args' = [NoArgs EXCEPT !.query = key_name]
            /\ UNCHANGED <<now, Config, last_request_time, cache, pc, frame, requests,
                           limited_sent_at, api_call, calls, parserVars, fileVars,
                           environ, dotenv, client>>

EnvValues == {Unset, "", "secret", "other"}

\* os.environ[key_name] = value, or del os.environ[key_name], by the program
\* around the manager
SetEnv ==
    \E key_name \in KeyNames, value \in EnvValues :
        /\ environ' = [environ EXCEPT ![key_name] = value]
        /\ UNCHANGED <<toolkitVars, parserVars, fileVars, dotenv, manager, client>>

NextKeys == ConstructManager \/ GetKey \/ SetEnv

SpecKeys == InitCredentials /\ [][NextKeys]_vars

----------------------------------------------------------------------------
(* sanitize_filename (src/utils/obsidian.py), a text being a sequence of   *)
(* one-character strings                                                   *)

FilenameLimit == 50

\* the characters tried: a letter, a digit and the underscore (\w), the
\* hyphen, a space and a newline (\s), and a slash and a dot (neither)
WordChars == {"a", "7", "_"}
Alphabet == WordChars \cup Whitespace \cup {"-", "/", "."}

\* re.sub(r'[^\w\s-]', '', name)
RemoveInvalid(cs) ==
    SelectSeq(cs, LAMBDA c : c \in WordChars \cup Whitespace \cup {"-"})

\* (a hyphen for every whitespace character)
HyphenateEach(cs) ==
    [i \in 1..Len(cs) |-> IF cs[i] \in Whitespace THEN "-" ELSE cs[i]]

\* re.sub(r'\s+', '-', name): a match begins at each whitespace character
\* that does not follow one and takes the whole run; the hyphen stands
\* where the match began
HyphenateRuns(cs) ==
    LET places == SelectSeq([i \in 1..Len(cs) |-> i],
                            LAMBDA i : \/ cs[i] \notin Whitespace
                                       \/ i = 1
                                       \/ cs[i - 1] \notin Whitespace)
    IN  [j \in 1..Len(places) |->
            IF cs[places[j]] \in Whitespace THEN "-" ELSE cs[places[j]]]

SanitizeFilename(cs) == Take(HyphenateRuns(RemoveInvalid(cs)), FilenameLimit)

MaxPattern == 3     \* the longest pattern a text repeats
MaxRepeat == 26     \* how often a text repeats its pattern at most

RECURSIVE Patterns(_)
Patterns(n) ==
    IF n = 0 THEN {<<>>}
    ELSE LET shorter == Patterns(n - 1)
         IN  shorter \cup {Append(cs, c) : cs \in {x \in shorter : Len(x) = n - 1},
                                           c \in Alphabet}

\* the pattern, times times
Repeated(pattern, times) ==
    [i \in 1..(Len(pattern) * times) |-> pattern[((i - 1) % Len(pattern)) + 1]]

\* texts shorter than, as long as and longer than FilenameLimit
Names ==
    {Repeated(p, times) : p \in Patterns(MaxPattern),
                          times \in {1, MaxRepeat - 1, MaxRepeat}}

\* sanitize_filename(name), and then sanitize_filename of what it returned
Sanitize ==
    /\ passes < 2
    /\ filename' = SanitizeFilename(IF passes = 0 THEN name ELSE filename)
    /\ passes' = passes + 1
    /\ UNCHANGED <<toolkitVars, parserVars, keyVars, name>>

InitSanitize ==
    /\ InitInstance({CHOOSE c \in Instances : c.max_results = NoInt})
    /\ InitParser
    /\ InitKeys
    /\ name \in Names
    /\ filename = <<>>
    /\ passes = 0

SpecSanitize == InitSanitize /\ [][Sanitize]_vars

----------------------------------------------------------------------------
(* get_citation_metrics with long lists of citing and related IDs.  efetch *)
(* answers with at most one PubmedArticle for each ID asked for.           *)

MaxIds == 7         \* the longest list of IDs in an elink response

PmidNumbered(i) == "10" \o ToString(i)

\* "101", "102", ... and the same list with its first two IDs exchanged,
\* each cut to every length; an ID element without text in some
LinkedIds ==
    LET straight == [i \in 1..MaxIds |-> PmidNumbered(i)]
        swapped == [i \in 1..MaxIds |->
                       IF i = 1 THEN PmidNumbered(2)
                       ELSE IF i = 2 THEN PmidNumbered(1) ELSE PmidNumbered(i)]
    IN  {Take(ids, n) : ids \in {straight, swapped}, n \in 0..MaxIds}
            \cup {<<PyNone, PmidNumbered(2), PyNone>>}

LinkOutcomes ==
    {Raised("timed out")} \cup {Response(200, Body(TRUE, ids, <<>>)) : ids \in LinkedIds}

RelatedOutcomes ==
    {Raised("timed out")}
        \cup {Response(200, Body(TRUE, <<>>, [i \in 1..n |-> ArticleFull])) :
                 n \in 0..Len(frame.ids)}

LongCitedIn == \E outcome \in LinkOutcomes : MetricsCitedInStep(outcome, 0)

LongRelated == \E outcome \in LinkOutcomes : MetricsRelatedStep(outcome, 0)

LongRelatedDetails == \E o \in RelatedOutcomes : MetricsRelatedDetailsStep(o, 0)

NextMetrics == CitationMetrics \/ LongCitedIn \/ LongRelated \/ LongRelatedDetails

SpecMetrics == Init /\ [][NextMetrics]_vars

----------------------------------------------------------------------------
(* The claims *)

Operations == {"search_pubmed", "search_pubmed_advanced", "get_citation_metrics"}

ErrorPrefixes ==
    {"Could not fetch articles.", "Could not fetch articles with advanced search.",
     "Could not fetch citing articles.", "Could not fetch citation metrics."}

\* C1: a _make_api_request call sends no request only if the cache holds an
\* entry under the call's key whose age at the lookup is below cache_duration,
\* and it then hands back the stored response; when no such entry exists (the
\* entry is as old as cache_duration or older, as every entry is when
\* cache_duration = 0) the call sends one request through the rate limiter.
C1_StoredResponseOnlyWithinWindow ==
    [][api_call' # NoCall =>
          LET k == CacheKey(api_call'.url, api_call'.params)
              fresh == k \in DOMAIN cache /\ now - cache[k].time < cache_duration
          IN  /\ requests' = <<>> =>
                    fresh /\ api_call'.outcome = cache[k].response
              /\ ~fresh => Len(requests') = 1 /\ requests'[1].via = "limited"]_vars

\* a call answered from the cache some time after the entry was stored
C1_Witness ==
    /\ api_call # NoCall
    /\ requests = <<>>
    /\ LET k == CacheKey(api_call.url, api_call.params)
       IN  k \in DOMAIN cache /\ api_call.at > cache[k].time

\* C2: every request of _make_api_request leaves at least MinInterval (0.34 s)
\* after the previous request of _make_api_request left.
C2_RequestsAtLeastMinIntervalApart ==
    \A i \in 1..Len(requests) :
        requests[i].via = "limited" /\ requests[i].since_limited # NoTime
            => requests[i].since_limited >= MinInterval

\* C3: within an operation, every request leaves at least MinInterval (0.34 s)
\* after the operation's previous request left.
C3_OperationRequestsRateLimited ==
    \A i \in 2..Len(requests) : requests[i].gap >= MinInterval

\* C8: a finished search_pubmed, search_pubmed_advanced or get_citation_metrics
\* has returned a string, never let an exception out; when an exception was
\* raised inside it, the string is a "Could not fetch ..." prefix, " Error: "
\* and the text of the exception.
C8_OperationsReturnStrings ==
    result.op \in Operations =>
        /\ result.returned
        /\ result.error # "" =>
              \E prefix \in ErrorPrefixes : result.value = ErrorText(prefix, result.error)

\* get_citation_metrics has returned after a response that is not XML
C8_Witness ==
    /\ result.op = "get_citation_metrics"
    /\ result.returned
    /\ result.error = ParseError

\* C9: every string the three operations return is accepted by json.loads.
C9_ReturnsJson ==
    result.op \in Operations /\ result.returned => JsonLoads(result.value)

----------------------------------------------------------------------------
(* parse_details *)

HasText(e) == e # Absent /\ e # PyNone

SomeText(elems) == \E i \in 1..Len(elems) : elems[i] # PyNone

\* the ten fields other than First_Author: the placeholder when the source
\* is absent, never when it has text
FieldsFollowSource(a, r) ==
    /\ a.PubDateYear = Absent => r.Published = "No date available"
    /\ HasText(a.PubDateYear) => r.Published # "No date available"
    /\ a.ArticleTitle = Absent => r.Title = "No title available"
    /\ HasText(a.ArticleTitle) => r.Title # "No title available"
    /\ a.AbstractText = <<>> => Str(r.Summary) = "No abstract available"
    /\ (\E i \in 1..Len(a.AbstractText) : a.AbstractText[i].text # <<>>)
           => Str(r.Summary) # "No abstract available"
    /\ a.doi = Absent => r.DOI = "No DOI available"
    /\ HasText(a.doi) => r.DOI # "No DOI available"
    /\ a.PMID = Absent => r.PubMed_URL = "No URL available"
    /\ HasText(a.PMID) => r.PubMed_URL # "No URL available"
    /\ a.pmc = Absent /\ a.doi = Absent => r.Full_Text_URL = "Not available"
    /\ HasText(a.pmc) \/ HasText(a.doi) => r.Full_Text_URL # "Not available"
    /\ a.Keyword = <<>> => r.Keywords = "No keywords available"
    /\ SomeText(a.Keyword) => r.Keywords # "No keywords available"
    /\ a.DescriptorName = <<>> => r.MeSH_Terms = "No MeSH terms available"
    /\ SomeText(a.DescriptorName) => r.MeSH_Terms # "No MeSH terms available"
    /\ a.JournalTitle = Absent => r.Journal = "Unknown Journal"
    /\ HasText(a.JournalTitle) => r.Journal # "Unknown Journal"
    /\ a.PublicationType = <<>> => r.Publication_Type = "Not specified"
    /\ SomeText(a.PublicationType) => r.Publication_Type # "Not specified"

\* C4 (as amended): parse_details gives every field whose source element
\* is absent its placeholder and no field whose source element has text
\* the placeholder, the source of First_Author being the LastName of the
\* first Author: First_Author is "Unknown" when there is no first Author
\* or the first Author has no LastName.
C4_PlaceholdersFollowLastName ==
    \A i \in 1..Len(records) :
        LET a == xml_root[i]
            r == records[i]
        IN  /\ FieldsFollowSource(a, r)
            /\ ~a.Author.present \/ a.Author.LastName = Absent
                   => r.First_Author = "Unknown"
            /\ a.Author.present /\ HasText(a.Author.LastName)
                   => r.First_Author # "Unknown"

\* C4 (as stated): the same, the source of First_Author being the first
\* Author: "Unknown" when there is none and never when it has text.
C4_PlaceholdersFollowAuthor ==
    \A i \in 1..Len(records) :
        LET a == xml_root[i]
            r == records[i]
        IN  /\ FieldsFollowSource(a, r)
            /\ ~a.Author.present => r.First_Author = "Unknown"
            /\ a.Author.present
                 /\ (HasText(a.Author.LastName) \/ HasText(a.Author.ForeName))
                   => r.First_Author # "Unknown"

\* an article parsed whose first Author has a ForeName and no LastName,
\* with a title and without a PMID
C4_Witness ==
    /\ Len(records) = 1
    /\ xml_root[1].Author.present
    /\ xml_root[1].Author.LastName = Absent
    /\ HasText(xml_root[1].Author.ForeName)
    /\ HasText(xml_root[1].ArticleTitle)
    /\ xml_root[1].PMID = Absent

----------------------------------------------------------------------------
(* The query of search_pubmed_advanced *)

\* the term parameter of the esearch request of the operation
Term == ParamValue(api_call.params, "term")

\* the steps of search_pubmed_advanced that follow its ID lookup
DetailSteps == {"advanced:details", "citation:details"}

\* the latest step was the first request of search_pubmed_advanced
QuerySent ==
    /\ result.op = "search_pubmed_advanced" \/ pc \in DetailSteps
    /\ api_call # NoCall

\* it was the esearch request, which carries the query
TermSent == QuerySent /\ op_args.cited_by_pmid = ""

\* the k-th of the pieces of cs that the occurrences of sep delimit
PieceBetween(cs, sep, k) ==
    LET seps == {i \in 1..Len(cs) : cs[i] = sep}
        pos(n) == CHOOSE i \in seps : Cardinality({j \in seps : j < i}) = n - 1
        first == IF k = 1 THEN 1 ELSE pos(k - 1) + 1
        last == IF k = Cardinality(seps) + 1 THEN Len(cs) ELSE pos(k) - 1
    IN  SubSeq(cs, first, last)

\* cs from its first to its last character that is not whitespace
Trimmed(cs) ==
    LET keep == {i \in 1..Len(cs) : cs[i] \notin Whitespace}
    IN  IF keep = {} THEN <<>>
        ELSE SubSeq(cs, CHOOSE i \in keep : \A j \in keep : i <= j,
                        CHOOSE i \in keep : \A j \in keep : i >= j)

\* one quoted [MeSH Terms] clause for each term that sep separates
ClausesSeparatedBy(cs, sep) ==
    [k \in 1..(Cardinality({i \in 1..Len(cs) : cs[i] = sep}) + 1) |->
        "\"" \o Str(Trimmed(PieceBetween(cs, sep, k))) \o "\"[MeSH Terms]"]

\* the query whose MeSH clauses are mesh_clauses and whose filters are
\* joined with joiner
TermWith(a, mesh_clauses, joiner) ==
    LET terms == (IF a.query # "" THEN <<MainClause(a)>> ELSE <<>>) \o mesh_clauses
        main == IF terms # <<>>
                THEN JoinStr(" " \o a.boolean_operator \o " ", terms)
                ELSE "all[sb]"
    IN  IF Filters(a) # <<>>
        THEN "(" \o main \o ") AND (" \o JoinStr(joiner, Filters(a)) \o ")"
        ELSE main

\* C5 (as amended): the filter clauses that are supplied are joined in
\* the final query with AND whatever boolean_operator is; boolean_operator
\* joins the main clause and the MeSH clauses only.
C5_FiltersJoinedWithAnd ==
    TermSent => Term = TermWith(op_args, MeshClauses(op_args), " AND ")

\* C5 (as stated): the filter clauses that are supplied are joined in the
\* final query with the boolean operator selected by boolean_operator.
C5_FiltersJoinedWithOperator ==
    TermSent =>
        Term = TermWith(op_args, MeshClauses(op_args),
                        " " \o op_args.boolean_operator \o " ")

\* a query sent with OR and more than one filter
C5_Witness ==
    /\ TermSent
    /\ op_args.boolean_operator = "OR"
    /\ Len(Filters(op_args)) >= 2

\* C6: a non-empty mesh_terms is split on semicolons only: each
\* semicolon-separated term, stripped of surrounding whitespace, yields
\* exactly one clause "<term>"[MeSH Terms], in input order, and a comma
\* stays inside its term.
C6_MeshTermsSplitOnSemicolons ==
    TermSent /\ op_args.mesh_terms # <<>> =>
        Term = TermWith(op_args, ClausesSeparatedBy(op_args.mesh_terms, ";"), " AND ")

\* a query sent whose mesh_terms has a comma inside the first of two terms
C6_Witness ==
    /\ TermSent
    /\ op_args.mesh_terms = <<"a", ",", ";">>
    /\ op_args.query = "cancer"

\* C7: MeSH terms separated by commas are several MeSH terms: each
\* comma-separated term yields its own [MeSH Terms] clause.
C7_MeshTermsSplitOnCommas ==
    TermSent /\ op_args.mesh_terms # <<>> /\ ";" \notin Range(op_args.mesh_terms) =>
        Term = TermWith(op_args, ClausesSeparatedBy(op_args.mesh_terms, ","), " AND ")

----------------------------------------------------------------------------
(* The credential loaders *)

MissingKeys(required_keys, env) ==
    SelectSeq(required_keys, LAMBDA k : env[k] = Unset \/ env[k] = "")

\* C10: ApiKeyManager(required_keys) raises ValueError exactly when a
\* required key is unset or empty in the environment, the message listing
\* every missing key in required_keys order, and on success keys holds
\* exactly the required keys with their non-empty values; initialize_client
\* raises ValueError, and creates no client, when GEMINI_API_KEY is unset
\* or empty.
C10_RaisesExactlyWhenKeyMissing ==
    [][/\ manager' # manager =>
            LET required_keys == manager'.required_keys
                missing == MissingKeys(required_keys, environ')
            IN  /\ manager'.raised <=> missing # <<>>
                /\ manager'.raised =>
                       manager'.message =
                           "Required keys not found: " \o JoinStr(", ", missing)
                               \o ". Please check your .env file."
                /\ ~manager'.raised =>
                       /\ DOMAIN manager'.keys = Range(required_keys)
                       /\ \A k \in Range(required_keys) :
                              /\ manager'.keys[k] = environ'[k]
                              /\ manager'.keys[k] \notin {Unset, ""}
       /\ client' # client =>
            LET missing == environ'["GEMINI_API_KEY"] \in {Unset, ""}
            IN  /\ client'.raised <=> missing
                /\ client'.created <=> ~missing]_vars

\* both loaders have raised, NCBI_API_KEY being empty and GEMINI_API_KEY
\* unset, the manager naming both keys
C10_Witness ==
    /\ manager.raised
    /\ manager.required_keys = <<"NCBI_API_KEY", "GEMINI_API_KEY">>
    /\ manager.message
         = "Required keys not found: NCBI_API_KEY, GEMINI_API_KEY. Please check your .env file."
    /\ environ["NCBI_API_KEY"] = ""
    /\ environ["GEMINI_API_KEY"] = Unset
    /\ client.raised
    /\ ~client.created

----------------------------------------------------------------------------
(* The number of results search_pubmed_advanced asks for *)

\* the citing ids the citation path goes on with (none when it returned
\* its message)
CitingKept == IF pc = "citation:details" THEN frame.ids ELSE <<>>

\* the call asked for n results: retmax of the esearch request, or the
\* length the citing ids are cut to
AsksFor(n) ==
    /\ op_args.cited_by_pmid = "" => ParamValue(api_call.params, "retmax") = ToString(n)
    /\ op_args.cited_by_pmid # "" /\ ~Failed(api_call.outcome)
           => CitingKept = Take(IdsOf(api_call.outcome), n)

----------------------------------------------------------------------------
(* The ID lookup of search_pubmed_advanced that finds nothing *)

\* the latest step was the ID lookup of search_pubmed_advanced and its
\* response was read
LookupAnswered == QuerySent /\ ~Failed(api_call.outcome)

\* C12: when the ID lookup of search_pubmed_advanced returns no IDs, the
\* operation returns a JSON list holding exactly its one message and sends
\* no efetch request; the detail fetch is only reached with IDs.
C12_NoIdsNoDetailFetch ==
    /\ LookupAnswered /\ IdsOf(api_call.outcome) = <<>> =>
          /\ pc = "idle"
          /\ result.returned
          /\ result.value =
                <<"[",
                  IF op_args.cited_by_pmid = ""
                  THEN "\"No articles found matching your criteria.\""
                  ELSE "\"No articles found citing PMID: "
                           \o op_args.cited_by_pmid \o "\"",
                  "]">>
          /\ \A i \in 1..Len(requests) : requests[i].url # EFETCH
    /\ pc \in DetailSteps => frame.ids # <<>>

\* a citation search whose elink lookup found no citing article has returned
C12_Witness ==
    /\ LookupAnswered
    /\ op_args.cited_by_pmid = "101"
    /\ api_call.url = ELINK
    /\ IdsOf(api_call.outcome) = <<>>
    /\ result.returned

----------------------------------------------------------------------------
(* search_pubmed_advanced without a query and without MeSH terms *)

NoQueryTerms ==
    /\ QuerySent
    /\ op_args.cited_by_pmid = ""
    /\ op_args.query = ""
    /\ op_args.mesh_terms = <<>>

\* C13: with neither a query nor MeSH terms the main query is "all[sb]":
\* the final query is "all[sb]" without filters and
\* "(all[sb]) AND (<filters>)" with filters, the esearch request is still
\* made, and the call that has ended has returned a string.
C13_BroadMatchWithoutTerms ==
    NoQueryTerms =>
        /\ Term = IF Filters(op_args) = <<>> THEN "all[sb]"
                  ELSE "(all[sb]) AND (" \o JoinStr(" AND ", Filters(op_args)) \o ")"
        /\ api_call.url = ESEARCH
        /\ api_call.sent
        /\ Len(requests) = 1
        /\ pc = "idle" => result.returned

\* a search with two filters and nothing else has been sent
C13_Witness ==
    /\ NoQueryTerms
    /\ Term = "(all[sb]) AND (Smith JB[Author] AND \"Nature\"[Journal])"
    /\ result.returned

----------------------------------------------------------------------------
(* The response cache *)

\* C14: the cache has no eviction: no key ever leaves it, an expired entry
\* stays, and an entry only changes by being overwritten, for its own key,
\* with the response of the request just sent and a timestamp that is not
\* older.
C14_CacheNeverShrinks ==
    [][/\ DOMAIN cache \subseteq DOMAIN cache'
       /\ \A k \in DOMAIN cache :
             cache'[k] # cache[k] =>
                 /\ api_call'.sent
                 /\ k = CacheKey(api_call'.url, api_call'.params)
                 /\ cache'[k].time >= cache[k].time
                 /\ cache'[k].response = api_call'.outcome]_vars

\* two entries, one of them expired and still in the mapping
C14_Witness ==
    /\ cache_duration > 0
    /\ Cardinality(DOMAIN cache) = 2
    /\ \E k \in DOMAIN cache : now - cache[k].time >= cache_duration

\* the request r has this URL and this set of parameters
SameRequest(r, url, params) == r.url = url /\ Range(r.params) = Range(params)

\* C15: a cached response is returned only for a request whose URL and
\* complete parameter set are those of the request that stored it, in
\* whatever order the parameters come: a call is answered from the cache
\* exactly when an unexpired entry was stored by such a request, and an
\* entry is only overwritten by such a request.
C15_EntryOnlyForSameRequest ==
    [][api_call' # NoCall =>
          LET same == {k \in DOMAIN cache :
                          SameRequest(cache[k].request, api_call'.url, api_call'.params)}
              fresh == {k \in same : now - cache[k].time < cache_duration}
          IN  /\ ~api_call'.sent =>
                    \E k \in fresh : api_call'.outcome = cache[k].response
              /\ fresh # {} => ~api_call'.sent
              /\ Cardinality(same) <= 1
              /\ \A k \in DOMAIN cache : cache'[k] # cache[k] => k \in same]_vars

\* a call answered from the entry that a request with the same parameters
\* in another order stored
C15_Witness ==
    /\ api_call # NoCall
    /\ ~api_call.sent
    /\ Cardinality(DOMAIN cache) = 1
    /\ \E k \in DOMAIN cache :
          /\ SameRequest(cache[k].request, api_call.url, api_call.params)
          /\ cache[k].request.params # api_call.params

----------------------------------------------------------------------------
(* The basic toolkit *)

\* C16: search_pubmed(query, max_results=n) of the basic toolkit makes its
\* esearch request with retmax = n, whatever the instance's own
\* max_results is.
C16_BasicRetmaxIsArgument ==
    \A i \in 1..Len(requests) :
        requests[i].url = ESEARCH =>
            ParamValue(requests[i].params, "retmax") = ToString(op_args.max_results)

----------------------------------------------------------------------------
(* The citation path of search_pubmed_advanced *)

\* C17: with cited_by_pmid the call makes one elink request
\* (pubmed_pubmed_citedin) for that PMID and no esearch request, and what
\* it goes on with or returns is fixed by the PMID, max_results and the
\* answer to that request: no other criterion of the call has an effect.
C17_CitationPathIgnoresCriteria ==
    QuerySent /\ op_args.cited_by_pmid # "" =>
        LET pmid == op_args.cited_by_pmid
            o == api_call.outcome
            citing == Take(IdsOf(o), ActualMaxResults(op_args.max_results))
        IN  /\ Len(requests) = 1
            /\ requests[1].url = ELINK
            /\ requests[1].params
                 = <<<<"dbfrom", "pubmed">>, <<"db", "pubmed">>, <<"id", pmid>>,
                     <<"linkname", "pubmed_pubmed_citedin">>, <<"retmode", "xml">>,
                     <<"tool", "agno-ai-pubmed-tool">>, <<"email", email>>>>
            /\ IF Failed(o)
               THEN /\ pc = "idle"
                    /\ result.value
                         = <<"Could not fetch citing articles.", " Error: ", Failure(o)>>
               ELSE IF citing = <<>>
               THEN /\ pc = "idle"
                    /\ result.value
                         = <<"[", "\"No articles found citing PMID: " \o pmid \o "\"", "]">>
               ELSE /\ pc = "citation:details"
                    /\ frame = [NoFrame EXCEPT !.pmid = pmid, !.ids = citing]

\* a citation search called with a query, filters and OR has found citing
\* articles
C17_Witness ==
    /\ QuerySent
    /\ op_args.cited_by_pmid = "101"
    /\ op_args.query = "cancer"
    /\ op_args.boolean_operator = "OR"
    /\ Len(Filters(op_args)) >= 2
    /\ pc = "citation:details"

----------------------------------------------------------------------------
(* get_citation_metrics *)

MetricsSteps == {"metrics:citedin", "metrics:related", "metrics:related_details"}

\* get_citation_metrics is running or was the latest operation to end
InMetrics == result.op = "get_citation_metrics" \/ pc \in MetricsSteps

\* the keys of the JSON object value, in order
ObjectKeys(value) == [i \in 1..((Len(value) - 1) \div 4) |-> value[4 * i - 2]]

IsMetricsObject(value) ==
    /\ Len(value) = 21
    /\ value[1] = "{"
    /\ value[21] = "}"
    /\ ObjectKeys(value)
         = <<"\"article\"", "\"citation_count\"", "\"mesh_terms\"",
             "\"publication_type\"", "\"related_articles\"">>

\* the detail fetch for the PMID, first request of the operation, was
\* answered with this many articles or more
DetailFetchGave(n) ==
    /\ ~Failed(requests[1].outcome)
    /\ Len(requests[1].outcome.content.articles) >= n

\* C18: when the detail fetch of get_citation_metrics yields no article the
\* operation returns {"error": "No article found with PMID: <pmid>"} and
\* makes no elink request; the object with the keys article,
\* citation_count, mesh_terms, publication_type and related_articles is
\* returned only when an article was found and no step failed.
C18_NoArticleGivesErrorObject ==
    InMetrics =>
        /\ DetailFetchGave(0) /\ ~DetailFetchGave(1) =>
              /\ pc = "idle"
              /\ result.returned
              /\ result.value
                   = <<"{", "\"error\"", ": ",
                       "\"No article found with PMID: " \o op_args.query \o "\"", "}">>
              /\ Len(requests) = 1
              /\ requests[1].url = EFETCH
        /\ pc \in MetricsSteps => DetailFetchGave(1)
        /\ pc = "idle" /\ IsMetricsObject(result.value) =>
              /\ DetailFetchGave(1)
              /\ result.error = ""
              /\ \A i \in 1..Len(requests) : ~Failed(requests[i].outcome)

\* the operation has returned the error object
C18_Witness ==
    /\ InMetrics
    /\ pc = "idle"
    /\ DetailFetchGave(0)
    /\ ~DetailFetchGave(1)
    /\ result.returned
    /\ Len(result.value) = 5

----------------------------------------------------------------------------
(* The structure of the final query *)

\* the filter clauses of the call, in the order the code adds them
FilterClauses(a) ==
    LET clause(given, text) == IF given THEN <<text>> ELSE <<>>
    IN  clause(a.author # "", a.author \o "[Author]")
        \o clause(a.journal # "", "\"" \o a.journal \o "\"[Journal]")
        \o clause(a.publication_date # "", a.publication_date \o "[Date - Publication]")
        \o clause(a.publication_type # "",
                  "\"" \o a.publication_type \o "\"[Publication Type]")
        \o clause(a.filter_free_full_text, "free full text[Filter]")
        \o clause(a.affiliation # "", "\"" \o a.affiliation \o "\"[Affiliation]")

\* the final query made of these query terms, joined with operator, and of
\* these filter clauses
Structured(terms, operator, filters) ==
    LET joined == IF terms = <<>> THEN "all[sb]"
                  ELSE JoinStr(" " \o operator \o " ", terms)
    IN  IF filters = <<>> THEN joined
        ELSE "(" \o joined \o ") AND (" \o JoinStr(" AND ", filters) \o ")"

\* the query terms of the call: its main clause, then its MeSH clauses
TermsOf(a, main) ==
    (IF a.query # "" THEN <<main>> ELSE <<>>)
        \o (IF a.mesh_terms # <<>> THEN ClausesSeparatedBy(a.mesh_terms, ";") ELSE <<>>)

\* C19: the query terms (the main clause, then the MeSH clauses in input
\* order) are joined with " <boolean_operator> ", the filter clauses with
\* " AND "; without filters the final query is the joined terms, with
\* filters "(<terms>) AND (<filters>)"; with fewer than two query terms
\* boolean_operator has no effect on the final query.
C19_FinalQueryStructure ==
    TermSent =>
        LET terms == TermsOf(op_args, MainClause(op_args))
        IN  /\ Term = Structured(terms, op_args.boolean_operator, FilterClauses(op_args))
            /\ Len(terms) < 2 =>
                  \A operator \in {"AND", "OR", "NOT"} :
                      Term = Structured(terms, operator, FilterClauses(op_args))

\* a query, two MeSH terms and several filters have been sent with OR
C19_Witness ==
    /\ TermSent
    /\ op_args.boolean_operator = "OR"
    /\ op_args.query = "cancer"
    /\ op_args.mesh_terms = <<"a", ";", "b">>
    /\ Len(FilterClauses(op_args)) >= 2

\* C20: exactly one field form is applied to the main query clause, by the
\* precedence title_only > abstract_only > field_restriction > none; no
\* MeSH or filter clause gets it, and without a query the three
\* restriction arguments have no effect on the final query.
C20_FieldFormByPrecedence ==
    TermSent =>
        LET a == op_args
            field == IF a.title_only THEN "[Title]"
                     ELSE IF a.abstract_only THEN "[Abstract]"
                     ELSE IF a.field_restriction # ""
                          THEN "[" \o a.field_restriction \o "]"
                          ELSE ""
            unrestricted == [a EXCEPT !.title_only = FALSE, !.abstract_only = FALSE,
                                      !.field_restriction = ""]
        IN  /\ Term = Structured(TermsOf(a, "(" \o a.query \o ")" \o field),
                                 a.boolean_operator, Filters(a))
            /\ a.query = "" => Term = FinalQuery(unrestricted)

\* a query sent with both flags and a field restriction, a MeSH term and a
\* filter
C20_Witness ==
    /\ TermSent
    /\ op_args.query = "cancer"
    /\ op_args.title_only
    /\ op_args.abstract_only
    /\ op_args.field_restriction = "Title/Abstract"
    /\ op_args.mesh_terms = <<"a">>
    /\ op_args.author = "Smith JB"

----------------------------------------------------------------------------
(* The sort parameter of search_pubmed_advanced *)

\* C21: sort_by "pub_date" is sent as sort "date", "first_author" as
\* "first_author", and every other value, recognised or not, as
\* "relevance"; an unrecognised sort_by causes no error: the request is
\* made, and the call only fails when the request does.
C21_SortByMapping ==
    TermSent =>
        /\ ParamValue(api_call.params, "sort")
             = CASE op_args.sort_by = "pub_date" -> "date"
                 [] op_args.sort_by = "first_author" -> "first_author"
                 [] OTHER -> "relevance"
        /\ api_call.sent
        /\ result.error # "" => Failed(api_call.outcome)

\* a search with an unrecognised sort_by has returned without an error
C21_Witness ==
    /\ TermSent
    /\ op_args.sort_by = "newest"
    /\ ParamValue(api_call.params, "sort") = "relevance"
    /\ result.returned
    /\ result.error = ""

----------------------------------------------------------------------------
(* What _make_api_request stores, and what a call changes *)

\* C22: every cache entry holds a response with status code 200; a response
\* with another status is handed back to the caller and not stored, and a
\* call that repeats the request straight after it sends a request again.
C22_OnlySuccessfulResponsesCached ==
    /\ [](\A k \in DOMAIN cache :
             ~cache[k].response.raised /\ cache[k].response.status = 200)
    /\ [][/\ (/\ api_call' # NoCall
              /\ api_call'.sent
              /\ ~api_call'.outcome.raised
              /\ api_call'.outcome.status # 200)
             => /\ cache' = cache
                /\ result' = Result("_make_api_request", TRUE, <<>>, "")
          /\ (/\ api_call # NoCall
              /\ api_call.sent
              /\ ~api_call.outcome.raised
              /\ api_call.outcome.status # 200
              /\ api_call' # NoCall
              /\ api_call'.url = api_call.url
              /\ api_call'.params = api_call.params)
             => api_call'.sent]_vars

\* the last of a run of calls got a response with status 500 after an
\* earlier request; nothing is in the cache
C22_Witness ==
    /\ calls = MaxRequests
    /\ api_call # NoCall
    /\ api_call.sent
    /\ api_call.outcome.status = 500
    /\ result.returned
    /\ requests[1].since_limited # NoTime
    /\ DOMAIN cache = {}


\* C23: a _make_api_request call served from the cache sends no request,
\* does not sleep (no time passes in it), and leaves last_request_time and
\* the whole cache, the timestamp of the entry it returned included, as
\* they were.
C23_CacheHitChangesNothing ==
    [][api_call' # NoCall /\ ~api_call'.sent =>
          /\ requests' = <<>>
          /\ now' = now
          /\ last_request_time' = last_request_time
          /\ limited_sent_at' = limited_sent_at
          /\ cache' = cache
          /\ api_call'.outcome = cache[CacheKey(api_call'.url, api_call'.params)].response
          /\ result'.returned]_vars

\* a call served from the cache less than MinInterval after the last
\* request, from an entry stored before the lookup
C23_Witness ==
    /\ api_call # NoCall
    /\ ~api_call.sent
    /\ result.returned
    /\ now = api_call.at
    /\ now - last_request_time < MinInterval
    /\ cache[CacheKey(api_call.url, api_call.params)].time < now


\* C24: when the HTTP request of a _make_api_request call raises, the call
\* has sent that one request and no other, the cache and last_request_time
\* are as before the call, and the exception reaches the caller: a direct
\* caller sees it raised, and search_pubmed_advanced and
\* get_citation_metrics return their "Could not fetch ..." prefix,
\* " Error: " and the text of the exception.
C24_RaisedRequestNotRetried ==
    [][api_call' # NoCall /\ api_call'.sent /\ api_call'.outcome.raised =>
          /\ requests' = Append(IF pc = "idle" THEN <<>> ELSE requests,
                                requests'[Len(requests')])
          /\ requests'[Len(requests')].url = api_call'.url
          /\ requests'[Len(requests')].outcome = api_call'.outcome
          /\ cache' = cache
          /\ last_request_time' = last_request_time
          /\ pc' = "idle"
          /\ result'.error = api_call'.outcome.error
          /\ IF result'.op = "_make_api_request"
             THEN ~result'.returned
             ELSE /\ result'.op \in Operations
                  /\ result'.returned
                  /\ \E prefix \in ErrorPrefixes :
                        result'.value = ErrorText(prefix, result'.error)]_vars

\* get_citation_metrics has returned its error string after its second
\* elink request raised, the first one's response being in the cache
C24_Witness ==
    /\ result.op = "get_citation_metrics"
    /\ result.returned
    /\ api_call # NoCall
    /\ api_call.sent
    /\ api_call.outcome.raised
    /\ Len(requests) = 3
    /\ Cardinality(DOMAIN cache) = 1
    /\ result.value = ErrorText(MetricsError, "timed out")

----------------------------------------------------------------------------
(* The concise article text *)

\* the text with its Title and Published lines (and the Cites line of the
\* citation search) before the Summary line, the summary cut to SummaryCut
\* characters and "..." when it is longer
ConciseWithAllLines(article, cites) ==
    "Title: " \o Fmt(article.Title) \o "\n"
    \o "Published: " \o Fmt(article.Published) \o "\n"
    \o (IF cites # "" THEN "Cites: PMID " \o cites \o "\n" ELSE "")
    \o "Summary: "
    \o (IF Len(article.Summary) > SummaryCut
        THEN Str(Take(article.Summary, SummaryCut)) \o "..."
        ELSE Str(article.Summary))

\* C25: with results_expanded false, every article text that search_pubmed,
\* search_pubmed_advanced and the citation search return has the Title line,
\* the Published line (and the Cites line in the citation search) and then
\* the Summary line, whatever the length of the summary.
C25_ConciseTextHasAllLines ==
    (/\ ~results_expanded
     /\ result.op \in {"search_pubmed", "search_pubmed_advanced"}
     /\ result.returned
     /\ result.error = ""
     /\ Len(requests) = 2)
    => LET articles == ParseDetails(requests[2].outcome.content.articles)
       IN  result.value =
             JsonDumpsList([i \in 1..Len(articles) |->
                 ConciseWithAllLines(articles[i], op_args.cited_by_pmid)])

----------------------------------------------------------------------------
(* The records of parse_details *)

RecordKeys ==
    {"Published", "Title", "Summary", "First_Author", "DOI", "PubMed_URL",
     "Full_Text_URL", "Keywords", "MeSH_Terms", "Journal", "Publication_Type"}

\* C26: parse_details returns one record per PubmedArticle element, in
\* document order, each with exactly the 11 keys and each key mapped to a
\* string, never to None, whether the source elements are absent, present
\* without text or present with text.
C26_RecordsOfStrings ==
    records # <<>> =>
        /\ Len(records) = Len(xml_root)
        /\ \A i \in 1..Len(records) :
              /\ DOMAIN records[i] = RecordKeys
              /\ HasText(xml_root[i].ArticleTitle)
                    => records[i].Title = xml_root[i].ArticleTitle
              /\ Len(records[i].Summary) >= 0
              /\ \A k \in RecordKeys \ {"Summary"} : records[i][k] # PyNone


\* C27: Full_Text_URL is the PubMed Central URL of the pmc ArticleId when
\* there is one, with or without a DOI; otherwise the doi.org URL of the
\* doi ArticleId when there is one; otherwise "Not available" (an id
\* without text is written as f"{None}").  PubMed_URL is the pubmed URL of
\* the PMID exactly when a PMID with a non-empty text is there, and
\* "No URL available" otherwise.
C27_FullTextUrlByPriority ==
    \A i \in 1..Len(records) :
        LET a == xml_root[i]
            r == records[i]
        IN  /\ r.Full_Text_URL =
                 IF a.pmc # Absent
                 THEN "https://www.ncbi.nlm.nih.gov/pmc/articles/" \o Fmt(a.pmc) \o "/"
                 ELSE IF a.doi # Absent
                 THEN "https://doi.org/" \o Fmt(a.doi)
                 ELSE "Not available"
            /\ r.PubMed_URL =
                 IF HasText(a.PMID) /\ a.PMID # ""
                 THEN "https://pubmed.ncbi.nlm.nih.gov/" \o a.PMID \o "/"
                 ELSE "No URL available"

\* an article with a pmc id, a DOI and a PMID parsed: the PubMed Central
\* URL was chosen
C27_Witness ==
    /\ Len(records) = 1
    /\ HasText(xml_root[1].pmc)
    /\ HasText(xml_root[1].doi)
    /\ HasText(xml_root[1].PMID)
    /\ records[1].Full_Text_URL = "https://www.ncbi.nlm.nih.gov/pmc/articles/PMC7/"
    /\ records[1].PubMed_URL = "https://pubmed.ncbi.nlm.nih.gov/201/"

----------------------------------------------------------------------------
(* The metrics object of get_citation_metrics *)

\* get_citation_metrics has returned its metrics object
MetricsReturned ==
    /\ pc = "idle"
    /\ result.op = "get_citation_metrics"
    /\ result.returned
    /\ result.error = ""
    /\ IsMetricsObject(result.value)

\* both elink answers came from requests of this operation, none from the
\* cache: requests 2 and 3 are the two elink requests
LinksRequested ==
    /\ Len(requests) >= 3
    /\ requests[2].url = ELINK
    /\ requests[3].url = ELINK

\* the IDs with a text in the response to request i of the operation
LinkedIn(i) == SelectSeq(requests[i].outcome.content.ids, LAMBDA id : id # PyNone)

\* the related IDs the operation keeps: those other than the queried PMID,
\* the first RelatedLimit of them
RelatedKept ==
    Take(SelectSeq(LinkedIn(3), LAMBDA id : id # op_args.query), RelatedLimit)

\* C28: in the metrics object citation_count is the number of citing IDs in
\* the response to the pubmed_pubmed_citedin request, whatever max_results
\* is; related_articles is built from the first 5 related IDs at most,
\* the queried PMID taken out before the cut: with no such ID no article is
\* fetched and the list is empty, otherwise exactly those IDs are fetched
\* and the list has one entry for each article in the answer, 5 at most.
C28_MetricsCountAndRelated ==
    MetricsReturned /\ LinksRequested =>
        /\ ParamValue(requests[2].params, "linkname") = "pubmed_pubmed_citedin"
        /\ result.value[8] = ToString(Len(LinkedIn(2)))
        /\ ParamValue(requests[3].params, "linkname") = "pubmed_pubmed"
        /\ Len(RelatedKept) <= 5
        /\ \A i \in 1..Len(RelatedKept) : RelatedKept[i] # op_args.query
        /\ IF RelatedKept = <<>>
           THEN Len(requests) = 3 /\ result.value[20] = "[]"
           ELSE /\ Len(requests) = 4
                /\ requests[4].url = EFETCH
                /\ ParamValue(requests[4].params, "id") = JoinStr(",", RelatedKept)
                /\ LET related == ParseDetails(requests[4].outcome.content.articles)
                   IN  /\ Len(related) <= 5
                       /\ result.value[20]
                            = "[" \o JoinStr(", ", [i \in 1..Len(related) |->
                                                       RelatedDetail(related[i])])
                                \o "]"

\* an instance with max_results = 1 has counted more than five citing IDs,
\* and of more than five related IDs that begin with the queried PMID it has
\* fetched the five after it and listed five related articles
C28_Witness ==
    /\ MetricsReturned
    /\ LinksRequested
    /\ max_results = 1
    /\ result.value[8] = ToString(MaxIds)
    /\ Len(LinkedIn(3)) > RelatedLimit
    /\ LinkedIn(3)[1] = op_args.query
    /\ Len(requests) = 4
    /\ ParamValue(requests[4].params, "id") = "102,103,104,105,106"
    /\ Len(requests[4].outcome.content.articles) = 5

----------------------------------------------------------------------------
(* ApiKeyManager.get *)

\* the step is a call of get: it ends with the result of a get, and neither
\* the environment nor the manager's required_keys changed in it
IsGet == result'.op = "get" /\ environ' = environ /\ manager.called

\* C29: get(k) raises nothing.  When k is in keys it returns the stored
\* value; otherwise, when the environment has a non-empty value for k, it
\* stores that value in keys and returns it; otherwise it returns None and
\* leaves keys as they are.  No step ever removes or changes a key held, so
\* a value once returned for k is returned for k ever after, whatever the
\* environment becomes; and every value in keys is a non-empty string.
C29_GetReturnsStoredValue ==
    /\ [](\A k \in DOMAIN manager.keys : manager.keys[k] \notin {Unset, PyNone, ""})
    /\ [][/\ manager.called =>
               \A k \in DOMAIN manager.keys :
                   k \in DOMAIN manager'.keys /\ manager'.keys[k] = manager.keys[k]
          /\ IsGet =>
               LET k == op_args'.query
                   v == result'.value[1]
               IN  /\ result'.returned
                   /\ result'.error = ""
                   /\ IF k \in DOMAIN manager.keys
                      THEN v = manager.keys[k] /\ manager'.keys = manager.keys
                      ELSE IF environ[k] \notin {Unset, ""}
                      THEN /\ v = environ[k]
                           /\ DOMAIN manager'.keys = DOMAIN manager.keys \cup {k}
                           /\ manager'.keys[k] = v
                      ELSE v = PyNone /\ manager'.keys = manager.keys
                   /\ v # PyNone => manager'.keys[k] = v]_vars

\* get has returned a value for a key that is not a required key and keys
\* holds it, while the environment has another value for the key
C29_Witness ==
    /\ result.op = "get"
    /\ result.returned
    /\ op_args.query = "NCBI_API_KEY"
    /\ manager.required_keys = <<"GEMINI_API_KEY">>
    /\ result.value = <<"secret">>
    /\ manager.keys["NCBI_API_KEY"] = "secret"
    /\ environ["NCBI_API_KEY"] = "other"

----------------------------------------------------------------------------
(* sanitize_filename *)

\* the places in cs of the characters that are no whitespace and of those
\* that begin a run of whitespace, in order
Staying(cs) ==
    SelectSeq([i \in 1..Len(cs) |-> i],
              LAMBDA i : cs[i] \notin Whitespace \/ i = 1 \/ cs[i - 1] \notin Whitespace)

\* C30: sanitize_filename returns at most 50 characters, all of them word
\* characters or hyphens: of the text without its characters that are
\* neither word characters, whitespace nor hyphens, the first 50 of the
\* characters outside whitespace and of the beginnings of a run of
\* whitespace, in order, with a hyphen for each such beginning; and
\* sanitize_filename of the result is the result.
C30_SanitizedAndIdempotent ==
    /\ [](passes >= 1 =>
            LET kept == SelectSeq(name, LAMBDA c : c \notin {"/", "."})
                places == Staying(kept)
            IN  /\ Len(filename) <= 50
                /\ \A i \in 1..Len(filename) : filename[i] \in WordChars \cup {"-"}
                /\ Len(filename) = IF Len(places) < 50 THEN Len(places) ELSE 50
                /\ \A j \in 1..Len(filename) :
                      filename[j] = IF kept[places[j]] \in Whitespace
                                    THEN "-" ELSE kept[places[j]])
    /\ [][passes >= 1 /\ passes' > passes => filename' = filename]_vars

\* a text of more than 50 characters with runs of two whitespace characters
\* has been sanitized twice: 50 characters are left
C30_Witness ==
    /\ passes = 2
    /\ Len(name) > 50
    /\ \E i \in 1..(Len(name) - 1) : name[i] \in Whitespace /\ name[i + 1] \in Whitespace
    /\ Len(filename) = 50
    /\ filename # name

============================================================================
